---- MODULE Spec2Model ----
(***************************************************************************)
(* Verification model of speedy.wasm: the embind wrappers of bindings.cpp  *)
(* (SonicStream, SpeedyStream), the cwrap based SpeedyWasmWrapper with the *)
(* setter shims of wasm_exports.c, and the demo drivers that call them.    *)
(* The Sonic/Speedy engine (soniclib.c, speedy.c) is not among the sources *)
(* and is modelled from the specification (sections 4.3 - 4.5, 7).         *)
(*                                                                         *)
(* Units: sample positions are per-channel frames numbered 1, 2, 3, ...;   *)
(* speeds, nonlinear factors and feedback strengths are in tenths          *)
(* (10 = 1.0) so that the model stays in integer arithmetic.               *)
(***************************************************************************)
EXTENDS Integers, Sequences, FiniteSets, TLC

VARIABLES
    app,          \* which page is running: one of Apps
    engines,      \* engine heap: handle -> engine stream record, or Null
    streamMap,    \* bindings.cpp:41 static map sonicStream -> SonicStreamWrapper* (0: no entry)
    wrappers,     \* the JS-side SonicStream objects (SonicStreamWrapper instances)
    lastOp,       \* the API call that produced this state: [name, w]
    lastError,    \* the error that call raised, "none" when it returned normally
    lastResult,   \* what that call returned
    emitLog,      \* history: per wrapper, the (frame, speed) points its stream emitted
    profileLog,   \* history: per wrapper, the points pushed into its speedProfile, with origin
    drainLog,     \* history: per wrapper, concatenation of all getSpeedProfile() results
    mapWriters,   \* history: the wrappers whose operations wrote streamMap
    sw,           \* the SpeedyWasmWrapper object (speedy-wasm-wrapper.js)
    swPc,         \* "draining" while SpeedyWasmWrapper.flush() is inside its read loop
    outputChunks, \* flush(): the chunks read so far, concatenated
    submitted,    \* history: frames handed to SpeedyWasmWrapper.process() before flush
    demo,         \* SpeedyDemo.processAndPlay: position, loop state and parameters
    speedy,       \* the SpeedyStream object (SpeedyStreamWrapper) and its engine stream
    ringBuffer,   \* the AudioRingBuffer, the two threads inside its methods, its history
    processor,    \* the SpeedyProcessor of the AudioWorkletNode (speedy-worklet.js)
    streamingDemo,\* the StreamingDemo object and its pending tasks (streaming-demo.js)
    playback      \* SpeedyDemo playback: sources, buttons, animation frame (app.js)

bindVars == <<engines, streamMap, wrappers, emitLog, profileLog, drainLog, mapWriters>>
callVars == <<lastOp, lastError, lastResult>>
swVars == <<sw, swPc, outputChunks, submitted>>
pageVars == <<processor, streamingDemo, playback>>

vars == <<app, engines, streamMap, wrappers, lastOp, lastError, lastResult,
          emitLog, profileLog, drainLog, mapWriters, sw, swPc, outputChunks,
          submitted, demo, speedy, ringBuffer, processor, streamingDemo, playback>>

----------------------------------------------------------------------------
(* Bounds of the model *)

\* frames of source audio a caller submits to one stream
MaxInput == 3
\* frames of source audio submitted to each stream of a pair of streams
PairInput == 2
\* largest per-call chunk, in frames
MaxChunk == 2

\* the SonicStream objects A and B, and the addresses the engine allocates
Wrappers == {1, 2}
Handles == {1, 2}
Null == [null |-> TRUE]

----------------------------------------------------------------------------
(* Engine, modelled from the specification *)

\* speeds are in tenths: SpeedUnit is 1.0
SpeedUnit == 10
\* spec section 7: Rg outside [0.5, 4.0] is an invalid configuration
MinSpeed == 5
MaxSpeed == 40
\* spec section 7: lambda outside [0, 1]
MaxNonlinear == 10
\* spec section 7: feedback outside [0, 0.5]; default 0.1 (section 4.4)
MaxFeedback == 5
DefaultFeedback == 1
\* pitch period p of the overlap-add engine, in frames (section 4.5)
Period == 1
\* input ring capacity, in frames: a write that does not fit is a short write
RingCap == 3 * Period

Min(a, b) == IF a < b THEN a ELSE b
Max(a, b) == IF a > b THEN a ELSE b

\* create(sample_rate, num_channels) -> Stream (section 6); Open, default configuration
sonicCreateStream(sample_rate, num_channels) ==
    IF sample_rate <= 0 \/ num_channels <= 0
    THEN Null
    ELSE [ sampleRate |-> sample_rate, numChannels |-> num_channels,
           inRing |-> <<>>, outRing |-> <<>>, flushed |-> FALSE,
           speed |-> SpeedUnit, nonlinear |-> 0, feedback |-> DefaultFeedback,
           frame |-> 0, callback |-> FALSE, accepted |-> <<>>, produced |-> <<>> ]

\* the tension t_f of input frame f, in tenths: the signal alternates between
\* frames of neutral tension (0.5) and frames of no tension (0)
TensionOf(f) == IF f % 2 = 0 THEN SpeedUnit \div 2 ELSE 0

\* section 4.4, speed_for(t_f, Rg): s_linear = Rg * (0.5 + t_f), clamped to
\* [0.5, max(4 Rg, 4.0)]; the drift correction is at rest (drift 0)
SpeedFor(t, Rg) ==
    Max(MinSpeed, Min(Max(4 * Rg, MaxSpeed), (Rg * (SpeedUnit \div 2 + t)) \div SpeedUnit))

\* section 4.4: s_eff = lambda * s + (1 - lambda) * Rg, for the frame at the
\* head of the input
EffSpeed(e) ==
    (e.nonlinear * SpeedFor(TensionOf(e.frame), e.speed)
        + (MaxNonlinear - e.nonlinear) * e.speed) \div MaxNonlinear

\* input frames one synthesis step advances over (section 4.5 step 3)
Need(e) == Max(Period, (Period * EffSpeed(e)) \div SpeedUnit)

\* one synthesis step: emits one period (tagged by the input frames at the head
\* of the block), advances the input, and finalizes one speed-profile point
SynthStep(e) ==
    LET take == Min(Need(e), Len(e.inRing))
    IN  [e EXCEPT !.outRing = @ \o SubSeq(e.inRing, 1, Period),
                  !.produced = @ \o SubSeq(e.inRing, 1, Period),
                  !.inRing = SubSeq(e.inRing, take + 1, Len(e.inRing)),
                  !.frame = @ + take]

RECURSIVE Synthesize(_, _)
\* runs synthesis steps while the ring permits; r = [e, pts]; headroom is the
\* lookahead of one period kept while the stream is Open
Synthesize(r, headroom) ==
    LET e == r.e
        ready == IF headroom THEN Len(e.inRing) >= Need(e) + Period
                             ELSE Len(e.inRing) >= Period
    IN  IF ready
        THEN Synthesize([e |-> SynthStep(e),
                         pts |-> IF e.callback
                                 THEN Append(r.pts, <<e.frame, EffSpeed(e)>>)
                                 ELSE r.pts], headroom)
        ELSE r

\* a write_float that takes no notice of the stream having been flushed
sonicWriteFloatToStream_reopen(e, data, sample_count) ==
    LET n == Min(Min(sample_count, Len(data)), RingCap - Len(e.inRing))
        taken == SubSeq(data, 1, n)
        r == Synthesize([e |-> [e EXCEPT !.inRing = @ \o taken,
                                         !.accepted = @ \o taken],
                         pts |-> <<>>], TRUE)
    IN  [e |-> r.e, ret |-> n, pts |-> r.pts]

\* write_float (section 4.5): appends what fits to the input ring and runs
\* synthesis; a flushed stream accepts nothing (state machine, section 4.5)
sonicWriteFloatToStream(e, data, sample_count) ==
    LET n == IF e.flushed THEN 0
             ELSE Min(Min(sample_count, Len(data)), RingCap - Len(e.inRing))
        taken == SubSeq(data, 1, n)
        r == Synthesize([e |-> [e EXCEPT !.inRing = @ \o taken,
                                         !.accepted = @ \o taken],
                         pts |-> <<>>], TRUE)
    IN  [e |-> r.e, ret |-> n, pts |-> r.pts]

\* read_float (section 4.5): drains up to max frames, returns the count (0 when dry)
sonicReadFloatFromStream(e, max_samples) ==
    LET n == Min(Max(max_samples, 0), Len(e.outRing))
    IN  [e |-> [e EXCEPT !.outRing = SubSeq(@, n + 1, Len(@))],
         ret |-> n, data |-> SubSeq(e.outRing, 1, n)]

\* flush (section 4.5): synthesizes until fewer than p input frames remain
sonicFlushStream(e) ==
    LET r == Synthesize([e |-> e, pts |-> <<>>], FALSE)
    IN  [e |-> [r.e EXCEPT !.flushed = TRUE], ret |-> 1, pts |-> r.pts]

\* set_speed: the C entry point returns void; an out-of-range Rg is not applied
sonicSetSpeed(e, rate) ==
    IF rate >= MinSpeed /\ rate <= MaxSpeed THEN [e EXCEPT !.speed = rate] ELSE e

\* enable_nonlinear / set_duration_feedback of the engine library
sonicEnableNonlinearSpeedup(e, factor) ==
    IF factor >= 0 /\ factor <= MaxNonlinear THEN [e EXCEPT !.nonlinear = factor] ELSE e

sonicSetDurationFeedbackStrength(e, factor) ==
    IF factor >= 0 /\ factor <= MaxFeedback THEN [e EXCEPT !.feedback = factor] ELSE e

sonicSamplesAvailable(e) == Len(e.outRing)

\* enable_speed_callback (section 6)
sonicSpeedCallback(e) == [e EXCEPT !.callback = TRUE]

----------------------------------------------------------------------------
(* bindings.cpp: helpers *)

\* 2^24: every integer up to it is a float; above it floats are spaced 2, 4, ...
FloatExactMax == 16777216

\* spacing of the floats around the non-negative integer n
Ulp(n) == CHOOSE u \in {1, 2, 4, 8, 16, 32, 64, 128} :
              /\ n \div u < FloatExactMax
              /\ (u = 1 \/ n \div u >= FloatExactMax \div 2)

\* static_cast<float>(time) (bindings.cpp:561): round to nearest float, ties to even
ToFloat32(n) ==
    LET u == Ulp(n)
        q == n \div u
        r == n % u
    IN  IF 2 * r < u THEN q * u
        ELSE IF 2 * r > u THEN (q + 1) * u
        ELSE IF q % 2 = 0 THEN q * u ELSE (q + 1) * u

Undefined == [kind |-> "undefined", n |-> 0, data |-> <<>>]
Void == [kind |-> "void", n |-> 0, data |-> <<>>]
IntResult(k) == [kind |-> "int", n |-> k, data |-> <<>>]
ArrayResult(d) == [kind |-> "array", n |-> Len(d), data |-> d]

\* floatVectorToJsArray / int16VectorToJsArray: an empty vector becomes undefined
floatVectorToJsArray(vec) == IF vec = <<>> THEN Undefined ELSE ArrayResult(vec)

\* the frames n more frames of source audio hold, after `from` frames
Chunk(from, n) == [i \in 1..n |-> from + i]

NoWrapper == [alive |-> FALSE, stream |-> 0, numChannels |-> 0, sampleRate |-> 0,
              speedProfile |-> <<>>]

FreeHandles == {h \in Handles : engines[h] = Null}

Engine(w) == engines[wrappers[w].stream]

Op(name, w) == [name |-> name, w |-> w, args |-> <<>>]

\* a configuration call, with the argument values it was given
ConfigOp(name, w, args) == [name |-> name, w |-> w, args |-> args]

----------------------------------------------------------------------------
(* bindings.cpp: SonicStreamWrapper *)

\* recordSpeed: "We return (time, speed) pairs flat"
recordSpeed(wrapper, time, speed) ==
    [wrapper EXCEPT !.speedProfile = @ \o <<ToFloat32(time), speed>>]

\* streamMap.find(stream): the wrapper registered for the handle, 0 for end()
CallbackTarget_first(stream) ==
    IF \E h \in Handles : streamMap[h] # 0
    THEN streamMap[CHOOSE h \in Handles :
                       streamMap[h] # 0 /\ \A g \in Handles : streamMap[g] # 0 => h <= g]
    ELSE 0

CallbackTarget(stream) == streamMap[stream]

\* speedCallbackStatic: st = [wr, log, origin] carries the wrappers and the history
speedCallbackStatic(st, stream, time, speed) ==
    LET it == CallbackTarget(stream)
    IN  IF it # 0
        THEN [st EXCEPT !.wr[it] = recordSpeed(@, time, speed),
                        !.log[it] = Append(@, <<ToFloat32(time), speed, st.origin>>)]
        ELSE st

RECURSIVE DeliverCallbacks(_, _, _)
\* the engine invokes the registered callback inline, once per finalized point
DeliverCallbacks(st, stream, pts) ==
    IF pts = <<>> THEN st
    ELSE DeliverCallbacks(speedCallbackStatic(st, stream, Head(pts)[1], Head(pts)[2]),
                          stream, Tail(pts))

\* the state change of an engine call made through wrapper w that returned r
EngineCall(w, r) ==
    LET h == wrappers[w].stream
        st == DeliverCallbacks([wr |-> wrappers, log |-> profileLog, origin |-> w], h, r.pts)
    IN  /\ engines' = [engines EXCEPT ![h] = r.e]
        /\ wrappers' = st.wr
        /\ profileLog' = st.log
        /\ emitLog' = [emitLog EXCEPT ![w] = @ \o r.pts]

\* new SonicStream(sample_rate, num_channels)
SonicStreamWrapper(w, sample_rate, num_channels) ==
    /\ ~wrappers[w].alive
    /\ lastOp' = ConfigOp("SonicStream", w, <<sample_rate, num_channels>>)
    /\ LET e == sonicCreateStream(sample_rate, num_channels)
       IN  IF e = Null
           THEN /\ lastError' = "runtime_error"
                /\ lastResult' = Void
                /\ UNCHANGED <<engines, streamMap, wrappers, emitLog, profileLog,
                               drainLog, mapWriters>>
           ELSE \E h \in FreeHandles :
                /\ engines' = [engines EXCEPT ![h] = e]
                /\ streamMap' = [streamMap EXCEPT ![h] = w]
                /\ mapWriters' = mapWriters \cup {w}
                /\ wrappers' = [wrappers EXCEPT ![w] =
                        [alive |-> TRUE, stream |-> h, numChannels |-> num_channels,
                         sampleRate |-> sample_rate, speedProfile |-> <<>>]]
                /\ emitLog' = [emitLog EXCEPT ![w] = <<>>]
                /\ profileLog' = [profileLog EXCEPT ![w] = <<>>]
                /\ drainLog' = [drainLog EXCEPT ![w] = <<>>]
                /\ lastError' = "none"
                /\ lastResult' = Void

\* ~SonicStreamWrapper (stream.delete() on the JS side)
SonicStreamWrapper_delete(w) ==
    /\ wrappers[w].alive
    /\ lastOp' = Op("delete", w)
    /\ IF wrappers[w].stream # 0
       THEN /\ streamMap' = [streamMap EXCEPT ![wrappers[w].stream] = 0]
            /\ mapWriters' = mapWriters \cup {w}
            /\ engines' = [engines EXCEPT ![wrappers[w].stream] = Null]
       ELSE UNCHANGED <<streamMap, mapWriters, engines>>
    /\ wrappers' = [wrappers EXCEPT ![w] = NoWrapper]
    /\ lastError' = "none"
    /\ lastResult' = Void
    /\ UNCHANGED <<emitLog, profileLog, drainLog>>

\* writeFloatToStream(input_buffer, sample_count): the array holds the frames
\* `data` and sample_count is their number; undefined, null and empty arrays
\* give an empty vector
writeFloatToStream(w, data) ==
    /\ wrappers[w].alive
    /\ lastOp' = Op("writeFloatToStream", w)
    /\ lastError' = "none"
    /\ IF data = <<>>
       THEN /\ lastResult' = IntResult(0)
            /\ UNCHANGED <<engines, wrappers, profileLog, emitLog>>
       ELSE LET r == sonicWriteFloatToStream(Engine(w), data, Len(data))
            IN  /\ EngineCall(w, r)
                /\ lastResult' = IntResult(r.ret)
    /\ UNCHANGED <<streamMap, drainLog, mapWriters>>

\* writeFloatToStreamPtr(input_ptr, sample_count): the frames `data` lie in the
\* heap at input_ptr; returns sonicWriteFloatToStream's result
writeFloatToStreamPtr(w, data) ==
    /\ wrappers[w].alive
    /\ lastOp' = Op("writeFloatToStreamPtr", w)
    /\ lastError' = "none"
    /\ LET r == sonicWriteFloatToStream(Engine(w), data, Len(data))
       IN  /\ EngineCall(w, r)
           /\ lastResult' = IntResult(r.ret)
    /\ UNCHANGED <<streamMap, drainLog, mapWriters>>

\* "if (samples_read <= 0) return undefined", else the samples as a typed array
ReadResult(samples_read, data) ==
    IF samples_read <= 0 THEN Undefined ELSE floatVectorToJsArray(data)

\* readFloatFromStream(buffer_size) and readShortFromStream(buffer_size):
\* std::vector<T> output(buffer_size * numChannels) throws std::length_error
\* when the int product is negative (it converts to a size_t above max_size)
readFromStream(w, buffer_size, name) ==
    /\ wrappers[w].alive
    /\ lastOp' = Op(name, w)
    /\ IF buffer_size * wrappers[w].numChannels < 0
       THEN /\ lastError' = "length_error"
            /\ lastResult' = Void
            /\ UNCHANGED engines
       ELSE LET r == sonicReadFloatFromStream(Engine(w), buffer_size)
            IN  /\ engines' = [engines EXCEPT ![wrappers[w].stream] = r.e]
                /\ lastError' = "none"
                /\ lastResult' = ReadResult(r.ret, r.data)
    /\ UNCHANGED <<streamMap, wrappers, emitLog, profileLog, drainLog, mapWriters>>

readFloatFromStream(w, buffer_size) == readFromStream(w, buffer_size, "readFloatFromStream")

readShortFromStream(w, buffer_size) == readFromStream(w, buffer_size, "readShortFromStream")

\* readFloatFromStreamPtr(output_ptr, buffer_size): no allocation, returns the count
readFloatFromStreamPtr(w, buffer_size) ==
    /\ wrappers[w].alive
    /\ lastOp' = Op("readFloatFromStreamPtr", w)
    /\ LET r == sonicReadFloatFromStream(Engine(w), buffer_size)
       IN  /\ engines' = [engines EXCEPT ![wrappers[w].stream] = r.e]
           /\ lastResult' = IntResult(r.ret)
    /\ lastError' = "none"
    /\ UNCHANGED <<streamMap, wrappers, emitLog, profileLog, drainLog, mapWriters>>

\* flushStream()
flushStream(w) ==
    /\ wrappers[w].alive
    /\ lastOp' = Op("flushStream", w)
    /\ LET r == sonicFlushStream(Engine(w))
       IN  /\ EngineCall(w, r)
           /\ lastResult' = IntResult(r.ret)
    /\ lastError' = "none"
    /\ UNCHANGED <<streamMap, drainLog, mapWriters>>

\* samplesAvailable()
samplesAvailable(w) ==
    /\ wrappers[w].alive
    /\ lastOp' = Op("samplesAvailable", w)
    /\ lastError' = "none"
    /\ lastResult' = IntResult(sonicSamplesAvailable(Engine(w)))
    /\ UNCHANGED bindVars

\* a void setter of the wrapper: forwards to the engine, returns nothing
Setter(w, name, args, e) ==
    /\ wrappers[w].alive
    /\ lastOp' = ConfigOp(name, w, args)
    /\ engines' = [engines EXCEPT ![wrappers[w].stream] = e]
    /\ lastError' = "none"
    /\ lastResult' = Void
    /\ UNCHANGED <<streamMap, wrappers, emitLog, profileLog, drainLog, mapWriters>>

\* a setSpeed that restarts the synthesis, discarding the output not yet read
setSpeed_restart(w, rate) ==
    Setter(w, "setSpeed", <<rate>>, [sonicSetSpeed(Engine(w), rate) EXCEPT !.outRing = <<>>])

\* setSpeed(rate)
setSpeed(w, rate) == Setter(w, "setSpeed", <<rate>>, sonicSetSpeed(Engine(w), rate))

\* setRate(rate): forwards to sonicSetRate; the playback rate is not part of
\* the modelled engine stream, whose output depends on speed only
sonicSetRate(e, rate) == e

setRate(w, rate) == Setter(w, "setRate", <<rate>>, sonicSetRate(Engine(w), rate))

\* SpeedyProcessor.handleMessage (speedy-worklet.js), after its
\* "if (!this.ready) return": the switch has the cases 'setSpeed' and
\* 'setPitch'; a message of any other type falls through it
handleMessage(w, type, payload) ==
    IF type = "setSpeed" THEN setSpeed(w, payload)
    ELSE IF type = "setPitch" THEN setRate(w, payload)
    ELSE wrappers[w].alive /\ UNCHANGED <<bindVars, callVars>>

enableNonlinearSpeedup(w, nonlinear_factor) ==
    Setter(w, "enableNonlinearSpeedup", <<nonlinear_factor>>,
           sonicEnableNonlinearSpeedup(Engine(w), nonlinear_factor))

setDurationFeedbackStrength(w, factor) ==
    Setter(w, "setDurationFeedbackStrength", <<factor>>,
           sonicSetDurationFeedbackStrength(Engine(w), factor))

setupSpeedCallback(w) ==
    Setter(w, "setupSpeedCallback", <<>>, sonicSpeedCallback(Engine(w)))

\* getSpeedProfile(): returns the accumulated pairs and clears the buffer
getSpeedProfile_keep(w) ==
    /\ wrappers[w].alive
    /\ lastOp' = Op("getSpeedProfile", w)
    /\ lastError' = "none"
    /\ LET result == floatVectorToJsArray(wrappers[w].speedProfile)
       IN  /\ lastResult' = result
           /\ drainLog' = [drainLog EXCEPT ![w] = @ \o result.data]
    /\ UNCHANGED <<engines, streamMap, wrappers, emitLog, profileLog, mapWriters>>

getSpeedProfile(w) ==
    /\ wrappers[w].alive
    /\ lastOp' = Op("getSpeedProfile", w)
    /\ lastError' = "none"
    /\ LET result == floatVectorToJsArray(wrappers[w].speedProfile)
       IN  /\ lastResult' = result
           /\ drainLog' = [drainLog EXCEPT ![w] = @ \o result.data]
    /\ wrappers' = [wrappers EXCEPT ![w].speedProfile = <<>>]
    /\ UNCHANGED <<engines, streamMap, emitLog, profileLog, mapWriters>>

----------------------------------------------------------------------------
(* wasm_exports.c: the two setters the cwrap build links *)

\* sonicEnableNonlinearSpeedup(stream, factor) of wasm_exports.c: it only prints
\* the factor, the stream is left as it was
wasm_sonicEnableNonlinearSpeedup(e, factor) == e

\* sonicSetDurationFeedbackStrength(stream, factor) of wasm_exports.c: prints only
wasm_sonicSetDurationFeedbackStrength(e, factor) == e

----------------------------------------------------------------------------
(* SpeedyWasmWrapper (speedy-wasm-wrapper.js) *)

\* a call of the wrapper: flushedBefore and state say what the stream was when
\* the call was made (state 0: never created, 1: live, 2: destroyed)
SwState == IF sw.streamPtr # 0 THEN 1 ELSE IF sw.destroyed THEN 2 ELSE 0

SwEngine == engines[sw.streamPtr]

SwFlushed == sw.streamPtr # 0 /\ SwEngine.flushed

SwOp(name, args) ==
    [name |-> name, w |-> 0,
     args |-> <<IF SwFlushed THEN 1 ELSE 0, SwState>> \o args]

\* throw new Error(...): nothing else changes
SwThrow ==
    /\ lastError' = "Error"
    /\ lastResult' = Void
    /\ UNCHANGED <<engines, sw, swPc, outputChunks, submitted>>

\* the fields of the wrapper after destroy()
DestroyedFields(s) ==
    [s EXCEPT !.streamPtr = 0,
              !.inputBufferPtr = 0,
              !.inputBufferSize = IF s.inputBufferPtr # 0 THEN 0 ELSE @,
              !.outputBufferPtr = 0,
              !.outputBufferSize = IF s.outputBufferPtr # 0 THEN 0 ELSE @,
              !.sampleRate = 0,
              !.numChannels = 0,
              !.destroyed = (s.streamPtr # 0 \/ @)]

\* the engine's streams after destroy(): destroyStream on the stream, if any
DestroyedEngines(s) ==
    IF s.streamPtr # 0 THEN [engines EXCEPT ![s.streamPtr] = Null] ELSE engines

\* init()
sw_init ==
    /\ app = "wrapper"
    /\ swPc = "idle"
    /\ lastOp' = SwOp("init", <<>>)
    /\ lastError' = "none"
    /\ lastResult' = Void
    /\ sw' = [sw EXCEPT !.module = TRUE]
    /\ UNCHANGED <<engines, swPc, outputChunks, submitted>>

\* create(sampleRate, numChannels, inputBufferSize, outputBufferSize)
sw_create(sampleRate, numChannels, inputBufferSize, outputBufferSize) ==
    /\ app = "wrapper"
    /\ swPc = "idle"
    /\ lastOp' = SwOp("create", <<sampleRate, numChannels, inputBufferSize, outputBufferSize>>)
    /\ IF ~sw.module
       THEN SwThrow
       ELSE LET s0 == IF sw.streamPtr # 0 THEN DestroyedFields(sw) ELSE sw
                eng0 == DestroyedEngines(sw)
                e == sonicCreateStream(sampleRate, numChannels)
            IN  /\ UNCHANGED <<swPc, outputChunks>>
                /\ lastResult' = Void
                /\ IF e = Null
                   THEN /\ lastError' = "Error"
                        /\ engines' = eng0
                        /\ sw' = [s0 EXCEPT !.sampleRate = sampleRate,
                                            !.numChannels = numChannels]
                        /\ UNCHANGED submitted
                   ELSE \E h \in {x \in Handles : eng0[x] = Null} :
                        /\ lastError' = "none"
                        /\ engines' = [eng0 EXCEPT ![h] = e]
                        /\ sw' = [s0 EXCEPT !.sampleRate = sampleRate,
                                            !.numChannels = numChannels,
                                            !.streamPtr = h,
                                            !.inputBufferSize = inputBufferSize,
                                            !.outputBufferSize = outputBufferSize,
                                            !.inputBufferPtr = 1,
                                            !.outputBufferPtr = 1,
                                            !.destroyed = FALSE]
                        /\ submitted' = 0

\* what a word after the input buffer may hold when the engine reads past it:
\* a value that is no frame of the source (0), or the value of an earlier frame
HeapValues == {0, 1}

\* process(inputFloat32Array): the array holds `length` floats, the next frames
\* of the caller's source; lastOp keeps the length, the per-channel count handed
\* to writeFloat and the number of floats copied into the input buffer
sw_process(isFloat32Array, length) ==
    /\ app = "wrapper"
    /\ swPc = "idle"
    /\ IF sw.streamPtr = 0 \/ ~isFloat32Array
       THEN lastOp' = SwOp("process", <<length, 0, 0>>) /\ SwThrow
       ELSE IF length % sw.numChannels # 0
       THEN lastOp' = SwOp("process", <<length, 0, 0>>) /\ SwThrow
       ELSE LET inputSamplesPerChannel == length \div sw.numChannels
                viewLength == sw.inputBufferSize * sw.numChannels
                copied == Min(length, viewLength) \div sw.numChannels
                over == inputSamplesPerChannel - copied
            IN  \E beyond \in [1..over -> HeapValues] :
                LET data == Chunk(submitted, copied) \o beyond
                    wr == sonicWriteFloatToStream(SwEngine, data, inputSamplesPerChannel)
                    rd == sonicReadFloatFromStream(wr.e, sw.outputBufferSize)
                IN  /\ lastOp' = SwOp("process", <<length, inputSamplesPerChannel,
                                                   Min(length, viewLength)>>)
                    /\ lastError' = "none"
                    /\ submitted' = IF SwFlushed THEN submitted
                                    ELSE submitted + inputSamplesPerChannel
                    /\ IF wr.ret = 0
                       THEN /\ engines' = [engines EXCEPT ![sw.streamPtr] = wr.e]
                            /\ lastResult' = ArrayResult(<<>>)
                       ELSE /\ engines' = [engines EXCEPT ![sw.streamPtr] = rd.e]
                            /\ lastResult' = ArrayResult(rd.data)
                    /\ UNCHANGED <<sw, swPc, outputChunks>>

\* flush(), up to the entry of its read loop
sw_flush ==
    /\ app = "wrapper"
    /\ swPc = "idle"
    /\ lastOp' = SwOp("flush", <<>>)
    /\ IF sw.streamPtr = 0
       THEN SwThrow
       ELSE /\ engines' = [engines EXCEPT ![sw.streamPtr] = sonicFlushStream(SwEngine).e]
            /\ swPc' = "draining"
            /\ outputChunks' = <<>>
            /\ lastError' = "none"
            /\ lastResult' = Void
            /\ UNCHANGED <<sw, submitted>>

\* outputChunks.push(chunk) with the concatenation that follows the loop
Collect_front(chunks, chunk) == chunk \o chunks

Collect(chunks, chunk) == chunks \o chunk

\* "if (samplesReadPerChannel <= 0) break"
DrainDone_negative(samplesReadPerChannel) == samplesReadPerChannel < 0

DrainDone(samplesReadPerChannel) == samplesReadPerChannel <= 0

\* flush(): one turn of "while (true)", and the return after the break
sw_flush_read ==
    /\ app = "wrapper"
    /\ swPc = "draining"
    /\ LET rd == sonicReadFloatFromStream(SwEngine, sw.outputBufferSize)
       IN  /\ engines' = [engines EXCEPT ![sw.streamPtr] = rd.e]
           /\ IF DrainDone(rd.ret)
              THEN /\ swPc' = "idle"
                   /\ lastResult' = ArrayResult(outputChunks)
                   /\ UNCHANGED outputChunks
              ELSE /\ outputChunks' = Collect(outputChunks, rd.data)
                   /\ UNCHANGED <<swPc, lastResult>>
    /\ UNCHANGED <<lastOp, lastError, sw, submitted>>

\* a setter of the wrapper: throws without a stream, else hands the value to the engine
SwSetter(name, value, e) ==
    /\ app = "wrapper"
    /\ swPc = "idle"
    /\ lastOp' = SwOp(name, <<value>>)
    /\ IF sw.streamPtr = 0
       THEN SwThrow
       ELSE /\ engines' = [engines EXCEPT ![sw.streamPtr] = e]
            /\ lastError' = "none"
            /\ lastResult' = Void
            /\ UNCHANGED <<sw, swPc, outputChunks, submitted>>

\* setSpeed(speed)
sw_setSpeed(speed) == SwSetter("setSpeed", speed, sonicSetSpeed(SwEngine, speed))

\* enableNonlinear(enable): passes enable ? 1.0 : 0.0
sw_enableNonlinear(enable) ==
    LET factor == IF enable THEN SpeedUnit ELSE 0
    IN  SwSetter("enableNonlinear", factor,
                 wasm_sonicEnableNonlinearSpeedup(SwEngine, factor))

\* setDurationFeedback(strength)
sw_setDurationFeedback(strength) ==
    SwSetter("setDurationFeedback", strength,
             wasm_sonicSetDurationFeedbackStrength(SwEngine, strength))

\* destroy()
sw_destroy ==
    /\ app = "wrapper"
    /\ swPc = "idle"
    /\ lastOp' = SwOp("destroy", <<>>)
    /\ lastError' = "none"
    /\ lastResult' = Void
    /\ engines' = DestroyedEngines(sw)
    /\ sw' = DestroyedFields(sw)
    /\ UNCHANGED <<swPc, outputChunks, submitted>>

----------------------------------------------------------------------------
(* SpeedyDemo.processAndPlay (demo.js): the processed stream is wrapper 1, the
   linear reference stream wrapper 2 *)

\* "const chunkSize = 8192", in frames of the model
chunkSize == MaxChunk

\* the value of "(output = sonicProcessed.readFloatFromStream(chunkSize))" as a
\* loop condition: undefined is falsy, every typed array is truthy
Truthy(result) == result.kind # "undefined"

DemoAt(pc) == app = "demo" /\ demo.pc = pc

\* new this.SonicStream(sampleRate, channels)
demo_new ==
    /\ DemoAt("idle")
    /\ SonicStreamWrapper(1, 1, 1)
    /\ demo' = [demo EXCEPT !.pc = "setSpeed"]

\* sonicProcessed.setSpeed(this.params.speed)
demo_setSpeed ==
    /\ DemoAt("setSpeed")
    /\ setSpeed(1, demo.speed)
    /\ demo' = [demo EXCEPT !.pc = "enableNonlinearSpeedup"]

\* sonicProcessed.enableNonlinearSpeedup(this.params.nonlinear)
demo_enableNonlinearSpeedup ==
    /\ DemoAt("enableNonlinearSpeedup")
    /\ enableNonlinearSpeedup(1, demo.nonlinear)
    /\ demo' = [demo EXCEPT !.pc = "setDurationFeedbackStrength"]

\* sonicProcessed.setDurationFeedbackStrength(this.params.feedback)
demo_setDurationFeedbackStrength ==
    /\ DemoAt("setDurationFeedbackStrength")
    /\ setDurationFeedbackStrength(1, demo.feedback)
    /\ demo' = [demo EXCEPT !.pc = "setupSpeedCallback"]

\* sonicProcessed.setupSpeedCallback()
demo_setupSpeedCallback ==
    /\ DemoAt("setupSpeedCallback")
    /\ setupSpeedCallback(1)
    /\ demo' = [demo EXCEPT !.pc = IF demo.linearRefEnabled THEN "linearNew" ELSE "write"]

\* if (this.params.linearRefEnabled) sonicLinear = new this.SonicStream(...)
demo_linear_new ==
    /\ DemoAt("linearNew")
    /\ SonicStreamWrapper(2, 1, 1)
    /\ demo' = [demo EXCEPT !.pc = "linearSetSpeed"]

\* the linear stream left at unit speed
demo_linear_setSpeed_unit ==
    /\ DemoAt("linearSetSpeed")
    /\ setSpeed(2, SpeedUnit)
    /\ demo' = [demo EXCEPT !.pc = "linearEnableNonlinearSpeedup"]

\* sonicLinear.setSpeed(this.params.speed)
demo_linear_setSpeed ==
    /\ DemoAt("linearSetSpeed")
    /\ setSpeed(2, demo.speed)
    /\ demo' = [demo EXCEPT !.pc = "linearEnableNonlinearSpeedup"]

\* the linear stream set up with the factor of the processed stream
demo_linear_enableNonlinearSpeedup_params ==
    /\ DemoAt("linearEnableNonlinearSpeedup")
    /\ enableNonlinearSpeedup(2, demo.nonlinear)
    /\ demo' = [demo EXCEPT !.pc = "linearSetDurationFeedbackStrength"]

\* sonicLinear.enableNonlinearSpeedup(0)
demo_linear_enableNonlinearSpeedup ==
    /\ DemoAt("linearEnableNonlinearSpeedup")
    /\ enableNonlinearSpeedup(2, 0)
    /\ demo' = [demo EXCEPT !.pc = "linearSetDurationFeedbackStrength"]

\* sonicLinear.setDurationFeedbackStrength(this.params.feedback)
demo_linear_setDurationFeedbackStrength ==
    /\ DemoAt("linearSetDurationFeedbackStrength")
    /\ setDurationFeedbackStrength(2, demo.feedback)
    /\ demo' = [demo EXCEPT !.pc = "linearSetupSpeedCallback"]

\* sonicLinear.setupSpeedCallback()
demo_linear_setupSpeedCallback ==
    /\ DemoAt("linearSetupSpeedCallback")
    /\ setupSpeedCallback(2)
    /\ demo' = [demo EXCEPT !.pc = "write"]

\* the head of "for (offset = 0; offset < inputData.length; offset += chunkSize)":
\* writeFloatToStream(chunk, chunk.length), its return value dropped
demo_write ==
    /\ DemoAt("write")
    /\ demo.offset < demo.inputLen
    /\ writeFloatToStream(1, Chunk(demo.offset, Min(chunkSize, demo.inputLen - demo.offset)))
    /\ demo' = [demo EXCEPT !.pc = IF demo.linearRefEnabled THEN "linearWrite" ELSE "drain"]

\* if (sonicLinear) sonicLinear.writeFloatToStream(chunk, chunk.length)
demo_linear_write ==
    /\ DemoAt("linearWrite")
    /\ writeFloatToStream(2, Chunk(demo.offset, Min(chunkSize, demo.inputLen - demo.offset)))
    /\ demo' = [demo EXCEPT !.pc = "drain"]

\* after the for loop: sonicProcessed.flushStream()
demo_flush ==
    /\ DemoAt("write")
    /\ demo.offset >= demo.inputLen
    /\ flushStream(1)
    /\ demo' = [demo EXCEPT !.pc = "flushDrain"]

\* one turn of "while ((output = sonicProcessed.readFloatFromStream(chunkSize)))",
\* inside the for loop ("drain") and after the flush ("flushDrain")
demo_drain ==
    /\ app = "demo"
    /\ demo.pc \in {"drain", "flushDrain"}
    /\ readFloatFromStream(1, chunkSize)
    /\ IF Truthy(lastResult')
       THEN demo' = [demo EXCEPT !.processedChunks = Collect(@, lastResult'.data)]
       ELSE IF demo.pc = "drain"
       THEN IF demo.linearRefEnabled
            THEN demo' = [demo EXCEPT !.pc = "linearDrain"]
            ELSE demo' = [demo EXCEPT !.pc = "write", !.offset = @ + chunkSize]
       ELSE demo' = [demo EXCEPT !.pc = IF demo.linearRefEnabled THEN "linearFlush"
                                        ELSE "getSpeedProfile"]

\* one turn of "while ((output = sonicLinear.readFloatFromStream(chunkSize)))",
\* inside the for loop ("linearDrain") and after the flush ("linearFlushDrain")
demo_linear_drain ==
    /\ app = "demo"
    /\ demo.pc \in {"linearDrain", "linearFlushDrain"}
    /\ readFloatFromStream(2, chunkSize)
    /\ IF Truthy(lastResult')
       THEN demo' = [demo EXCEPT !.linearChunks = Collect(@, lastResult'.data)]
       ELSE IF demo.pc = "linearDrain"
       THEN demo' = [demo EXCEPT !.pc = "write", !.offset = @ + chunkSize]
       ELSE demo' = [demo EXCEPT !.pc = "getSpeedProfile"]

\* if (sonicLinear) sonicLinear.flushStream()
demo_linear_flush ==
    /\ DemoAt("linearFlush")
    /\ flushStream(2)
    /\ demo' = [demo EXCEPT !.pc = "linearFlushDrain"]

\* sonicProcessed.getSpeedProfile()
demo_getSpeedProfile ==
    /\ DemoAt("getSpeedProfile")
    /\ getSpeedProfile(1)
    /\ demo' = [demo EXCEPT !.pc = "done"]

----------------------------------------------------------------------------
(* ring-buffer.js: AudioRingBuffer, written by the main thread and read by the
   audio thread (speedy-worklet.js carries its own copy of read and available).
   Each Atomics.load, each Atomics.store and each copied frame is one step. *)

\* largest "capacity" of "new AudioRingBuffer(capacity, channels)", in frames
MaxCapacity == 5
\* "this.capacity": frames of storage of the buffer
capacity == ringBuffer.capacity
\* "const channels = 1": one sample per frame
channelCount == 1
\* frames of source audio the streaming page pushes
MaxStream == 7

\* a thread that is in no call; a thread in a call keeps in op the method, in
\* data / count its argument (for read: data is outputData), in writeIndex,
\* readIndex and i its local variables; result and reported stay from the last return
ThreadIdle == [pc |-> "idle", op |-> "none", result |-> "none", reported |-> -1,
               data |-> <<>>, count |-> 0, writeIndex |-> 0, readIndex |-> 0, i |-> 0]

\* constructor: header[0] is writeIndex, header[1] readIndex, the storage zeroed;
\* accepted and returned are the history of the successful writes and reads
AudioRingBuffer(cap) ==
    [capacity |-> cap,
     header |-> [k \in 0..1 |-> 0],
     storage |-> [p \in 0..(cap * channelCount - 1) |-> 0],
     main |-> ThreadIdle,
     audio |-> ThreadIdle,
     accepted |-> <<>>,
     returned |-> <<>>]

\* write: "let availableSpace; if (writeIndex >= readIndex) ... else ..."
availableSpace(writeIndex, readIndex) ==
    IF writeIndex >= readIndex THEN capacity - (writeIndex - readIndex)
    ELSE readIndex - writeIndex

\* read and available(): "if (writeIndex >= readIndex) ... else ..."
available(writeIndex, readIndex) ==
    IF writeIndex >= readIndex THEN writeIndex - readIndex
    ELSE capacity - (readIndex - writeIndex)

\* a write that fills the last free frame as well
Overflow_exact(space, inputLen) == space < inputLen

\* "if (availableSpace < inputLen + 1) return false; // Buffer overflow"
Overflow(space, inputLen) == space < inputLen + 1

\* a read that lets one missing frame pass
Underflow_late(avail, count) == avail + 1 < count

\* "if (available < count) return false; // Underflow"
Underflow(avail, count) == avail < count

\* "const pos = (writeIndex + i) % this.capacity;" and the index of channel 0
WritePos(writeIndex, i) == ((writeIndex + i) % capacity) * channelCount

\* a read that takes every frame from the first position
ReadPos_first(readIndex, i) == (readIndex % capacity) * channelCount

\* "const pos = (readIndex + i) % this.capacity;" and the index of channel 0
ReadPos(readIndex, i) == ((readIndex + i) % capacity) * channelCount

RingAt(thread, op, pc) ==
    /\ app = "streaming"
    /\ ringBuffer[thread].op = op
    /\ ringBuffer[thread].pc = pc

RingIdle(thread) == app = "streaming" /\ ringBuffer[thread].pc = "idle"

\* write(inputData), up to "const writeIndex = Atomics.load(this.header, 0)"
write(inputData) ==
    /\ RingIdle("main")
    /\ ringBuffer' = [ringBuffer EXCEPT !.main =
          [ThreadIdle EXCEPT !.pc = "loadReadIndex", !.op = "write", !.data = inputData,
                             !.writeIndex = ringBuffer.header[0]]]

\* "const readIndex = Atomics.load(this.header, 1)" and the overflow test
write_loadReadIndex ==
    /\ RingAt("main", "write", "loadReadIndex")
    /\ LET m == ringBuffer.main
           readIndex == ringBuffer.header[1]
       IN  ringBuffer' = [ringBuffer EXCEPT !.main =
              IF Overflow(availableSpace(m.writeIndex, readIndex), Len(m.data))
              THEN [m EXCEPT !.pc = "idle", !.result = "false", !.readIndex = readIndex]
              ELSE [m EXCEPT !.pc = IF Len(m.data) = 0 THEN "store" ELSE "copy",
                             !.readIndex = readIndex]]

\* one turn of "for (let i = 0; i < inputLen; i++)"
write_copy ==
    /\ RingAt("main", "write", "copy")
    /\ LET m == ringBuffer.main
       IN  ringBuffer' = [ringBuffer EXCEPT
              !.storage[WritePos(m.writeIndex, m.i)] = m.data[m.i + 1],
              !.main.i = m.i + 1,
              !.main.pc = IF m.i + 1 = Len(m.data) THEN "store" ELSE "copy"]

\* "Atomics.store(this.header, 0, (writeIndex + inputLen) % this.capacity); return true"
write_store ==
    /\ RingAt("main", "write", "store")
    /\ LET m == ringBuffer.main
       IN  ringBuffer' = [ringBuffer EXCEPT
              !.header[0] = (m.writeIndex + Len(m.data)) % capacity,
              !.main.pc = "idle",
              !.main.result = "true",
              !.accepted = @ \o m.data]

\* read(outputData, count), up to "const writeIndex = Atomics.load(this.header, 0)"
read(count) ==
    /\ RingIdle("audio")
    /\ ringBuffer' = [ringBuffer EXCEPT !.audio =
          [ThreadIdle EXCEPT !.pc = "loadReadIndex", !.op = "read", !.count = count,
                             !.writeIndex = ringBuffer.header[0]]]

\* "const readIndex = Atomics.load(this.header, 1)" and the underflow test
read_loadReadIndex ==
    /\ RingAt("audio", "read", "loadReadIndex")
    /\ LET a == ringBuffer.audio
           readIndex == ringBuffer.header[1]
       IN  ringBuffer' = [ringBuffer EXCEPT !.audio =
              IF Underflow(available(a.writeIndex, readIndex), a.count)
              THEN [a EXCEPT !.pc = "idle", !.result = "false", !.readIndex = readIndex]
              ELSE [a EXCEPT !.pc = IF a.count = 0 THEN "store" ELSE "copy",
                             !.readIndex = readIndex]]

\* one turn of "for (let i = 0; i < count; i++)"
read_copy ==
    /\ RingAt("audio", "read", "copy")
    /\ LET a == ringBuffer.audio
       IN  ringBuffer' = [ringBuffer EXCEPT
              !.audio.data = Append(@, ringBuffer.storage[ReadPos(a.readIndex, a.i)]),
              !.audio.i = a.i + 1,
              !.audio.pc = IF a.i + 1 = a.count THEN "store" ELSE "copy"]

\* "Atomics.store(this.header, 1, (readIndex + count) % this.capacity); return true"
read_store ==
    /\ RingAt("audio", "read", "store")
    /\ LET a == ringBuffer.audio
       IN  ringBuffer' = [ringBuffer EXCEPT
              !.header[1] = (a.readIndex + a.count) % capacity,
              !.audio.pc = "idle",
              !.audio.result = "true",
              !.returned = @ \o a.data]

\* available(), up to "const writeIndex = Atomics.load(this.header, 0)"
available_call(thread) ==
    /\ RingIdle(thread)
    /\ ringBuffer' = [ringBuffer EXCEPT ![thread] =
          [ThreadIdle EXCEPT !.pc = "loadReadIndex", !.op = "available",
                             !.writeIndex = ringBuffer.header[0]]]

\* "const readIndex = Atomics.load(this.header, 1)" and the return
available_return(thread) ==
    /\ RingAt(thread, "available", "loadReadIndex")
    /\ LET t == ringBuffer[thread]
           readIndex == ringBuffer.header[1]
       IN  ringBuffer' = [ringBuffer EXCEPT ![thread] =
              [t EXCEPT !.pc = "idle", !.readIndex = readIndex,
                        !.reported = available(t.writeIndex, readIndex)]]

----------------------------------------------------------------------------
(* bindings.cpp: SpeedyStreamWrapper; the Speedy engine as the specification
   describes its analyzer (section 4.3) *)

\* no SpeedyStream object
NoSpeedy == [alive |-> FALSE, current |-> -1]

\* temporalHysteresisFuture(): kTemporalHysteresisFuture of the build without MATCH_MATLAB
kTemporalHysteresisFuture == 12

\* speedyInputFrameSize, in samples of the model
speedyInputFrameSize == 2

\* speedyCreateStream(sample_rate): the stream, no frame added yet
speedyCreateStream(sample_rate) ==
    IF sample_rate <= 0 THEN Null ELSE [current |-> -1]

\* speedyAddData(stream, input, at_time): the frame at_time has arrived
speedyAddData(st, at_time) == [st EXCEPT !.current = at_time]

\* speedyComputeTension(stream, at_time, &tension): 1 once at_time + K_future
\* frames have arrived, 0 before
speedyComputeTension(st, at_time) ==
    IF at_time >= 0 /\ at_time + kTemporalHysteresisFuture <= st.current THEN 1 ELSE 0

FloatResult == [kind |-> "float", n |-> 0, data |-> <<>>]

SpeedyCall(name, args) ==
    /\ app = "speedy"
    /\ lastOp' = ConfigOp(name, 0, args)

\* SpeedyStreamWrapper(sample_rate)
SpeedyStreamWrapper(sample_rate) ==
    /\ SpeedyCall("SpeedyStream", <<sample_rate>>)
    /\ ~speedy.alive
    /\ lastResult' = Void
    /\ LET st == speedyCreateStream(sample_rate)
       IN  IF st = Null
           THEN /\ lastError' = "runtime_error"
                /\ UNCHANGED speedy
           ELSE /\ lastError' = "none"
                /\ speedy' = [alive |-> TRUE, current |-> st.current]

\* ~SpeedyStreamWrapper()
SpeedyStreamWrapper_delete ==
    /\ SpeedyCall("delete", <<>>)
    /\ speedy.alive
    /\ lastError' = "none"
    /\ lastResult' = Void
    /\ speedy' = NoSpeedy

\* addData(input_array, at_time) and addDataShort(input_array, at_time): the
\* array holds `length` samples (0 for null and undefined); the engine reads
\* speedyInputFrameSize samples at data.data(), for a shorter vector whatever
\* lies behind it, and counts the frame either way
addAnyData(name, length, at_time) ==
    /\ SpeedyCall(name, <<length, at_time>>)
    /\ speedy.alive
    /\ lastResult' = Void
    /\ IF length = 0
       THEN /\ lastError' = "runtime_error: Input array is empty"
            /\ UNCHANGED speedy
       ELSE /\ lastError' = "none"
            /\ speedy' = [speedy EXCEPT !.current = speedyAddData(speedy, at_time).current]

addData(length, at_time) == addAnyData("addData", length, at_time)

addDataShort(length, at_time) == addAnyData("addDataShort", length, at_time)

\* "if (!result) throw std::runtime_error(Insufficient data ...)"
TensionMissing_never(result) == FALSE

TensionMissing(result) == result = 0

\* computeTension(at_time)
computeTension(at_time) ==
    /\ SpeedyCall("computeTension", <<at_time>>)
    /\ speedy.alive
    /\ LET result == speedyComputeTension(speedy, at_time)
       IN  IF TensionMissing(result)
           THEN /\ lastError' = "runtime_error: Insufficient data to compute tension"
                /\ lastResult' = Void
           ELSE /\ lastError' = "none"
                /\ lastResult' = FloatResult
    /\ UNCHANGED speedy

\* getCurrentTime()
getCurrentTime ==
    /\ SpeedyCall("getCurrentTime", <<>>)
    /\ speedy.alive
    /\ lastError' = "none"
    /\ lastResult' = IntResult(speedy.current)
    /\ UNCHANGED speedy

----------------------------------------------------------------------------
(* Specifications of the bindings page *)

Apps == {"bindings", "wrapper", "demo", "speedy", "streaming"}

\* new SpeedyWasmWrapper()
SwNew == [module |-> FALSE, streamPtr |-> 0, inputBufferPtr |-> 0, outputBufferPtr |-> 0,
          inputBufferSize |-> 0, outputBufferSize |-> 0, sampleRate |-> 0,
          numChannels |-> 0, destroyed |-> FALSE]

\* new SpeedyDemo(): no audio loaded, the parameters of the page's controls
DemoIdle == [pc |-> "idle", offset |-> 0, inputLen |-> 0, processedChunks |-> <<>>,
             linearChunks |-> <<>>, linearRefEnabled |-> FALSE,
             speed |-> SpeedUnit, nonlinear |-> 0, feedback |-> DefaultFeedback]

\* no AudioWorkletNode has been constructed: there is no SpeedyProcessor
NoProcessor == [node |-> 0, ready |-> FALSE, module |-> FALSE, sonic |-> 0,
                active |-> FALSE, pc |-> "idle", toRead |-> 0, tempInput |-> <<>>,
                inbox |-> <<>>, handled |-> "none", written |-> <<>>,
                played |-> <<>>, error |-> "none"]

\* clicks on the play button that the model follows: each can construct an
\* AudioWorkletNode, whose processor creates a Sonic stream
MaxClicks == Cardinality(Wrappers)

\* a startStreaming invocation that has not been made, a pushLoop that does not exist
NoLoop == [state |-> "none", offset |-> 0, toWrite |-> 0]

\* new StreamingDemo() after loadFile has decoded a file of sourceLen frames
\* in a context of the given sample rate: "this.workletNode = null;
\* this.ringBuffer = null; this.isPlaying = false; this.pushInterval = null",
\* the play button enabled by loadFile
StreamingDemo(sourceLen, sampleRate, stopBtnDisabled) ==
    [sourceLen |-> sourceLen, sampleRate |-> sampleRate, speed |-> SpeedUnit,
     workletNode |-> 0, nodes |-> 0, connected |-> {}, isPlaying |-> FALSE,
     pushInterval |-> 0, playBtnDisabled |-> FALSE,
     stopBtnDisabled |-> stopBtnDisabled,
     clicks |-> 0, slides |-> 0, calls |-> [i \in 1..MaxClicks |-> "none"],
     loops |-> [i \in 1..MaxClicks |-> NoLoop],
     running |-> 0, pc |-> "idle", inbox |-> <<>>,
     eof |-> FALSE, stopClicked |-> FALSE, error |-> "none"]

\* the page has not loaded a file
NoStreamingDemo == StreamingDemo(0, 0, TRUE)

\* AudioBufferSourceNodes that the model follows
MaxSources == 4

\* no source node was created (the model keeps room for the nodes of one
\* more handler)
NoSources == [k \in 1..(MaxSources + 2) |-> "none"]

\* new SpeedyDemo(): "this.sourceNode = null; this.sourceIdCounter = 0;
\* this.isProcessing = false", the playbackState object,
\* "this.selectedBufferType = 'original'"; originalBuffer tells whether
\* handleFileSelect has decoded a file
SpeedyDemo(originalBuffer) ==
    [originalBuffer |-> originalBuffer, processedBuffer |-> FALSE,
     linearBuffer |-> FALSE, selectedBufferType |-> "original",
     isProcessing |-> FALSE, sourceNode |-> 0, sourceIdCounter |-> 0,
     sources |-> NoSources, isPlaying |-> FALSE, isPaused |-> FALSE,
     currentBuffer |-> "null", animationId |-> 0,
     lastEvent |-> [name |-> "new", id |-> 0]]

\* SpeedyDemo playback before a file is loaded
NoPlayback == SpeedyDemo(FALSE)

InitPages ==
    /\ processor = NoProcessor
    /\ streamingDemo = NoStreamingDemo
    /\ playback = NoPlayback

\* the objects of the pages that are not running
InitOthers ==
    /\ sw = SwNew
    /\ swPc = "idle"
    /\ outputChunks = <<>>
    /\ submitted = 0
    /\ demo = DemoIdle
    /\ speedy = NoSpeedy
    /\ ringBuffer = AudioRingBuffer(MaxCapacity)
    /\ InitPages

otherVars == <<app, sw, swPc, outputChunks, submitted, demo, speedy, ringBuffer, pageVars>>

InitBindings ==
    /\ app = "bindings"
    /\ InitOthers
    /\ engines = [h \in Handles |-> Null]
    /\ streamMap = [h \in Handles |-> 0]
    /\ wrappers = [w \in Wrappers |-> NoWrapper]
    /\ lastOp = Op("init", 0)
    /\ lastError = "none"
    /\ lastResult = Void
    /\ emitLog = [w \in Wrappers |-> <<>>]
    /\ profileLog = [w \in Wrappers |-> <<>>]
    /\ drainLog = [w \in Wrappers |-> <<>>]
    /\ mapWriters = {}

\* argument values the callers draw from: valid ones and one outside each range
SampleRates == {0, 1}
ChannelCounts == {0, 1, 2}
Speeds == {SpeedUnit, 2 * SpeedUnit, MaxSpeed + SpeedUnit}
NonlinearFactors == {0, MaxNonlinear, 2 * MaxNonlinear}
FeedbackStrengths == {DefaultFeedback, MaxFeedback, MaxFeedback + MaxFeedback}
ReadSizes == {-1, 0, 1, MaxChunk}

\* the caller still has n frames of its source to submit
SourceHas(w, n, limit) ==
    wrappers[w].alive /\ Len(Engine(w).accepted) + n <= limit

\* the next n frames of the caller's source
NextChunk(w, n) == Chunk(Len(Engine(w).accepted), n)

StreamOps(w) ==
    \/ \E sr \in SampleRates, ch \in ChannelCounts : SonicStreamWrapper(w, sr, ch)
    \/ SonicStreamWrapper_delete(w)
    \/ \E n \in 0..MaxChunk :
          SourceHas(w, n, MaxInput) /\ writeFloatToStream(w, NextChunk(w, n))
    \/ \E n \in ReadSizes : readFloatFromStream(w, n)
    \/ \E n \in ReadSizes : readShortFromStream(w, n)
    \/ \E n \in ReadSizes : readFloatFromStreamPtr(w, n)
    \/ flushStream(w)
    \/ \E s \in Speeds : setSpeed(w, s)
    \/ \E s \in Speeds : handleMessage(w, "setSpeed", s)
    \/ \E f \in NonlinearFactors : enableNonlinearSpeedup(w, f)
    \/ \E f \in FeedbackStrengths : setDurationFeedbackStrength(w, f)
    \/ setupSpeedCallback(w)
    \/ getSpeedProfile(w)
    \/ samplesAvailable(w)

\* one SonicStream object driven through its whole API
Next == StreamOps(1) /\ UNCHANGED otherVars

Spec == InitBindings /\ [][Next]_vars

\* two SonicStream objects A and B, their calls interleaved in every order
PairOps(w) ==
    \/ \E sr \in SampleRates : SonicStreamWrapper(w, sr, 1)
    \/ SonicStreamWrapper_delete(w)
    \/ \E n \in 1..MaxChunk :
          SourceHas(w, n, PairInput) /\ writeFloatToStream(w, NextChunk(w, n))
    \/ readFloatFromStream(w, MaxChunk)
    \/ flushStream(w)
    \/ setSpeed(w, 2 * SpeedUnit)
    \/ setupSpeedCallback(w)
    \/ getSpeedProfile(w)

NextPair == (\E w \in Wrappers : PairOps(w)) /\ UNCHANGED otherVars

SpecPair == InitBindings /\ [][NextPair]_vars

\* a stream that has been running for FloatExactMax - 1 frames (about 46 hours of
\* audio at 100 frames per second), fully drained, its speed callback not yet set up
InitLong ==
    /\ app = "bindings"
    /\ InitOthers
    /\ engines = [h \in Handles |->
                    IF h = 1 THEN [sonicCreateStream(1, 1) EXCEPT !.frame = FloatExactMax - 1]
                    ELSE Null]
    /\ streamMap = [h \in Handles |-> IF h = 1 THEN 1 ELSE 0]
    /\ wrappers = [w \in Wrappers |->
                    IF w = 1 THEN [alive |-> TRUE, stream |-> 1, numChannels |-> 1,
                                   sampleRate |-> 1, speedProfile |-> <<>>]
                    ELSE NoWrapper]
    /\ lastOp = Op("init", 0)
    /\ lastError = "none"
    /\ lastResult = Void
    /\ emitLog = [w \in Wrappers |-> <<>>]
    /\ profileLog = [w \in Wrappers |-> <<>>]
    /\ drainLog = [w \in Wrappers |-> <<>>]
    /\ mapWriters = {1}

SpecLong == InitLong /\ [][Next]_vars

----------------------------------------------------------------------------
(* Specifications of the pages that drive a stream: SpeedyWasmWrapper and
   SpeedyDemo.processAndPlay *)

InitStreams ==
    /\ engines = [h \in Handles |-> Null]
    /\ streamMap = [h \in Handles |-> 0]
    /\ wrappers = [w \in Wrappers |-> NoWrapper]
    /\ lastOp = Op("init", 0)
    /\ lastError = "none"
    /\ lastResult = Void
    /\ emitLog = [w \in Wrappers |-> <<>>]
    /\ profileLog = [w \in Wrappers |-> <<>>]
    /\ drainLog = [w \in Wrappers |-> <<>>]
    /\ mapWriters = {}

\* a page holding a fresh SpeedyWasmWrapper
InitWrapper ==
    /\ app = "wrapper"
    /\ InitStreams
    /\ InitOthers

\* the demo page with an audio file of inputLen frames loaded and its controls set
InitDemo ==
    /\ app = "demo"
    /\ InitStreams
    /\ sw = SwNew
    /\ swPc = "idle"
    /\ outputChunks = <<>>
    /\ submitted = 0
    /\ speedy = NoSpeedy
    /\ ringBuffer = AudioRingBuffer(MaxCapacity)
    /\ InitPages
    /\ \E n \in 1..MaxInput, s \in {SpeedUnit, 2 * SpeedUnit}, f \in {0, MaxNonlinear},
          l \in BOOLEAN :
          demo = [DemoIdle EXCEPT !.inputLen = n, !.speed = s, !.nonlinear = f,
                                  !.linearRefEnabled = l]

InitCallers == InitWrapper \/ InitDemo

InputBufferSizes == {1, MaxChunk}
OutputBufferSizes == {1, MaxChunk}

\* create(): a mono stream with each pair of buffer sizes, a stereo stream, and
\* a sample rate the engine refuses
CreateArgs ==
    {<<1, 1, i, o>> : i \in InputBufferSizes, o \in OutputBufferSizes}
       \cup {<<1, 2, MaxChunk, MaxChunk>>, <<0, 1, 1, 1>>}

\* the caller of process() still has the frames of an array of `length` floats
SwSourceHas(length) ==
    IF sw.streamPtr = 0 THEN TRUE
    ELSE submitted + (length \div sw.numChannels) <= MaxInput

WrapperOps ==
    \/ sw_init
    \/ \E a \in CreateArgs : sw_create(a[1], a[2], a[3], a[4])
    \/ \E length \in 0..MaxChunk : SwSourceHas(length) /\ sw_process(TRUE, length)
    \/ sw_process(FALSE, 1)
    \/ sw_flush
    \/ sw_flush_read
    \/ \E s \in {SpeedUnit, 2 * SpeedUnit} : sw_setSpeed(s)
    \/ \E b \in BOOLEAN : sw_enableNonlinear(b)
    \/ \E f \in FeedbackStrengths : sw_setDurationFeedback(f)
    \/ sw_destroy

DemoOps ==
    \/ demo_new
    \/ demo_setSpeed
    \/ demo_enableNonlinearSpeedup
    \/ demo_setDurationFeedbackStrength
    \/ demo_setupSpeedCallback
    \/ demo_linear_new
    \/ demo_linear_setSpeed
    \/ demo_linear_enableNonlinearSpeedup
    \/ demo_linear_setDurationFeedbackStrength
    \/ demo_linear_setupSpeedCallback
    \/ demo_write
    \/ demo_linear_write
    \/ demo_flush
    \/ demo_drain
    \/ demo_linear_drain
    \/ demo_linear_flush
    \/ demo_getSpeedProfile

NextCallers ==
    \/ WrapperOps /\ UNCHANGED <<app, streamMap, wrappers, emitLog, profileLog,
                                 drainLog, mapWriters, demo, speedy, ringBuffer, pageVars>>
    \/ DemoOps /\ UNCHANGED <<app, sw, swPc, outputChunks, submitted, speedy, ringBuffer, pageVars>>

SpecCallers == InitCallers /\ [][NextCallers]_vars

\* JavaScript runs synchronous code to its end: a drain loop that has been
\* entered keeps taking its turns, and so does the flush between two loops
FairCallers ==
    /\ SpecCallers
    /\ WF_vars(sw_flush_read /\ UNCHANGED <<app, streamMap, wrappers, emitLog, profileLog,
                                             drainLog, mapWriters, demo, speedy, ringBuffer, pageVars>>)
    /\ WF_vars(demo_drain /\ UNCHANGED <<app, sw, swPc, outputChunks, submitted, speedy, ringBuffer, pageVars>>)
    /\ WF_vars((demo_linear_flush \/ demo_linear_drain)
                  /\ UNCHANGED <<app, sw, swPc, outputChunks, submitted, speedy, ringBuffer, pageVars>>)

----------------------------------------------------------------------------
(* Specification of a page that uses a SpeedyStream next to a SonicStream
   (README, "Custom Tension Computation") *)

MaxFrames == 14

InitSpeedy ==
    /\ app = "speedy"
    /\ InitStreams
    /\ InitOthers

SpeedyOps ==
    \/ \E sr \in SampleRates : SpeedyStreamWrapper(sr)
    \/ SpeedyStreamWrapper_delete
    \/ \E length \in 0..speedyInputFrameSize :
          speedy.current < MaxFrames /\ addData(length, speedy.current + 1)
    \/ \E length \in 0..speedyInputFrameSize :
          speedy.current < MaxFrames /\ addDataShort(length, speedy.current + 1)
    \/ \E t \in {0, 1, MaxFrames - kTemporalHysteresisFuture} : computeTension(t)
    \/ getCurrentTime

SonicOpsBeside(w) ==
    \/ SonicStreamWrapper(w, 1, 1)
    \/ \E n \in 1..MaxChunk :
          SourceHas(w, n, PairInput) /\ writeFloatToStream(w, NextChunk(w, n))
    \/ readFloatFromStream(w, MaxChunk)
    \/ flushStream(w)
    \/ samplesAvailable(w)

NextSpeedy ==
    \/ SpeedyOps /\ UNCHANGED bindVars
                 /\ UNCHANGED <<app, sw, swPc, outputChunks, submitted, demo, ringBuffer, pageVars>>
    \/ app = "speedy" /\ SonicOpsBeside(1) /\ UNCHANGED otherVars

SpecSpeedy == InitSpeedy /\ [][NextSpeedy]_vars

----------------------------------------------------------------------------
(* Specification of the streaming page: the main thread pushes the source into
   the ring buffer while the audio thread pulls from it *)

InitRing ==
    /\ app = "streaming"
    /\ InitStreams
    /\ InitOthers

\* the frames from + 1 .. from + n of the source
FramesFrom(from, n) == [k \in 1..n |-> from + k]

\* the main thread hands write the frames that follow those already accepted:
\* "if (success) offset += toWrite"
MainOps ==
    \/ \E inputLen \in 0..capacity :
          /\ Len(ringBuffer.accepted) + inputLen <= MaxStream
          /\ write(FramesFrom(Len(ringBuffer.accepted), inputLen))
    \/ write_loadReadIndex
    \/ write_copy
    \/ write_store
    \/ available_call("main")
    \/ available_return("main")

AudioOps ==
    \/ \E count \in 0..capacity : read(count)
    \/ read_loadReadIndex
    \/ read_copy
    \/ read_store
    \/ available_call("audio")
    \/ available_return("audio")

NextRing ==
    \/ MainOps /\ UNCHANGED <<bindVars, callVars, swVars, app, demo, speedy, pageVars>>
    \/ AudioOps /\ UNCHANGED <<bindVars, callVars, swVars, app, demo, speedy, pageVars>>

SpecRing == InitRing /\ [][NextRing]_vars

----------------------------------------------------------------------------
(* Claims about the SonicStream bindings *)

\* what a caller of stream w can observe: the wrapper object and its engine stream
ObservableState(w) ==
    <<wrappers[w], IF wrappers[w].stream # 0 THEN engines[wrappers[w].stream] ELSE Null>>

\* an operation on one stream leaves every other stream's observable state alone
C4_Isolated ==
    \A w \in Wrappers : lastOp'.w # w => ObservableState(w)' = ObservableState(w)

\* an operation changes no streamMap entry but that of its own stream
C4_OwnEntry ==
    \A h \in Handles :
        streamMap'[h] # streamMap[h] => lastOp'.w \in {streamMap[h], streamMap'[h]}

\* every point the engine emitted for w's stream, and no other point, was
\* recorded in w's speed profile, in order
C4_ProfileOwn ==
    \A w \in Wrappers :
        /\ Len(profileLog[w]) = Len(emitLog[w])
        /\ \A i \in 1..Len(profileLog[w]) :
               /\ profileLog[w][i][3] = w
               /\ profileLog[w][i][1] = ToFloat32(emitLog[w][i][1])
               /\ profileLog[w][i][2] = emitLog[w][i][2]

\* no piece of state is written by the operations of two different streams
C4_NoSharedState == Cardinality(mapWriters) <= 1

RECURSIVE FlatLog(_)
FlatLog(log) ==
    IF log = <<>> THEN <<>>
    ELSE <<Head(log)[1], Head(log)[2]>> \o FlatLog(Tail(log))

\* C5: each getSpeedProfile() call returns exactly the points recorded since the
\* previous call, in recording order, so that every recorded point is returned by
\* exactly one call; a call made when nothing has accumulated returns undefined.
C5_DrainExactlyOnce ==
    /\ \A w \in Wrappers :
           wrappers[w].alive =>
               drainLog[w] \o wrappers[w].speedProfile = FlatLog(profileLog[w])
    /\ lastOp.name = "getSpeedProfile" =>
           /\ wrappers[lastOp.w].speedProfile = <<>>
           /\ lastResult.kind \in {"undefined", "array"}
           /\ lastResult.kind = "undefined" <=> lastResult.data = <<>>

\* a second, non-empty drain has returned points recorded after the first one
C5_Witness ==
    /\ lastOp.name = "getSpeedProfile"
    /\ lastResult.kind = "array"
    /\ Len(drainLog[lastOp.w]) > Len(lastResult.data)

\* C6: across the concatenation of all speed profiles drained from one stream,
\* frame indices are strictly increasing: none is repeated, none goes backwards.
C6_FramesStrictlyIncreasing ==
    \A w \in Wrappers :
        \A i, j \in 1..(Len(drainLog[w]) \div 2) :
            i < j => drainLog[w][2 * i - 1] < drainLog[w][2 * j - 1]

ReadOps == {"readFloatFromStream", "readShortFromStream", "readFloatFromStreamPtr"}

\* C7: reads never fail: no read raises an error, in any stream state and for
\* any requested maximum.
C7_ReadsNeverFail == lastOp.name \in ReadOps => lastError = "none"

\* the last call was given a configuration value outside its valid range
InvalidConfiguration ==
    \/ lastOp.name = "SonicStream" /\ (lastOp.args[1] <= 0 \/ lastOp.args[2] <= 0)
    \/ lastOp.name = "setSpeed" /\ (lastOp.args[1] < MinSpeed \/ lastOp.args[1] > MaxSpeed)
    \/ lastOp.name = "enableNonlinearSpeedup"
          /\ (lastOp.args[1] < 0 \/ lastOp.args[1] > MaxNonlinear)
    \/ lastOp.name = "setDurationFeedbackStrength"
          /\ (lastOp.args[1] < 0 \/ lastOp.args[1] > MaxFeedback)

\* C9: creating a stream with sample rate <= 0 or channels <= 0, or calling a
\* setter with a value outside its range, raises an error at that call.
C9_InvalidConfigurationRaised == InvalidConfiguration => lastError # "none"

----------------------------------------------------------------------------
(* Claims about the callers of a stream *)

\* C1: once all input has been written and flush has been called, the drain
\* loops end: SpeedyWasmWrapper.flush() leaves its read loop and returns, and
\* the demo's "while (readFloatFromStream(n))" after flushStream() is left.
C1_DrainTerminates ==
    /\ (swPc = "draining") ~> (swPc = "idle")
    /\ (demo.pc = "flushDrain") ~> (demo.pc \in {"getSpeedProfile", "done"})

\* flush() has returned an array that took more than one read to collect
C1_Witness ==
    /\ app = "wrapper"
    /\ swPc = "idle"
    /\ lastOp.name = "flush"
    /\ lastError = "none"
    /\ lastResult.kind = "array"
    /\ lastResult.n > sw.outputBufferSize

\* C2: no input sample handed to a write is lost: when the caller has handed
\* over all its input and flushed, the stream has accepted every submitted
\* frame, once and in order.
C2_NoSampleLost ==
    /\ (app = "wrapper" /\ sw.streamPtr # 0 /\ lastOp.name = "flush" /\ lastError = "none")
          => SwEngine.accepted = Chunk(0, submitted)
    /\ (app = "demo" /\ demo.pc \in {"flushDrain", "getSpeedProfile", "done"})
          => Engine(1).accepted = Chunk(0, demo.inputLen)

\* C3: every configuration setter is applied: after enableNonlinear or
\* setDurationFeedback returned on a live stream with a value of the valid
\* range, the stream's nonlinear factor, respectively its feedback strength,
\* is the value passed.
C3_SettersApplied ==
    (app = "wrapper" /\ sw.streamPtr # 0 /\ lastError = "none")
       => /\ lastOp.name = "enableNonlinear" => SwEngine.nonlinear = lastOp.args[3]
          /\ (lastOp.name = "setDurationFeedback" /\ lastOp.args[3] <= MaxFeedback)
                => SwEngine.feedback = lastOp.args[3]

\* C8: a write of samples issued after flush, and a stream operation issued on
\* a destroyed stream, is rejected with an error.
C8_InvalidStateRejected ==
    (/\ app = "wrapper"
     /\ lastOp.name \in {"process", "flush", "setSpeed", "enableNonlinear",
                         "setDurationFeedback"}
     /\ \/ lastOp.args[2] = 2
        \/ lastOp.name = "process" /\ lastOp.args[1] = 1 /\ lastOp.args[3] > 0)
       => lastError # "none"

----------------------------------------------------------------------------
(* Claims about the SpeedyStream bindings *)

InsufficientData == "runtime_error: Insufficient data to compute tension"

\* the tension of frame at_time is not yet available
NotYetAvailable(at_time) == at_time + kTemporalHysteresisFuture > speedy.current

C11_TensionOnlyOnceWindowFull ==
    lastOp.name = "computeTension" =>
        /\ lastResult.kind = "float" =>
               /\ lastError = "none"
               /\ lastOp.args[1] + kTemporalHysteresisFuture <= speedy.current
        /\ lastOp.args[1] + kTemporalHysteresisFuture > speedy.current =>
               /\ lastError = InsufficientData
               /\ lastResult.kind # "float"

\* the first query that yields a value: the frame f + K_future has just arrived
C11_Witness ==
    /\ lastOp.name = "computeTension"
    /\ lastResult.kind = "float"
    /\ lastOp.args[1] + kTemporalHysteresisFuture = speedy.current

----------------------------------------------------------------------------
(* Claims about the life of a stream *)

\* the lifecycle state of an engine stream (section 4.5, state machine)
Lifecycle(e) ==
    IF ~e.flushed THEN "Open"
    ELSE IF Len(e.inRing) < Period /\ e.outRing = <<>> THEN "Drained"
    ELSE "Flushing"

Rank(e) == CASE Lifecycle(e) = "Open" -> 0
             [] Lifecycle(e) = "Flushing" -> 1
             [] Lifecycle(e) = "Drained" -> 2

\* one step of the stream of wrapper w, the wrapper neither built nor deleted by it
C12_Step(w) ==
    LET before == Engine(w)
        after == engines'[wrappers'[w].stream]
    IN  /\ Rank(after) >= Rank(before)
        /\ (Rank(before) = 0 /\ Rank(after) > 0) => lastOp'.name = "flushStream"
        /\ (lastOp'.name = "writeFloatToStream" /\ Rank(before) > 0) =>
               /\ after.accepted = before.accepted
               /\ after.inRing = before.inRing
               /\ lastResult' = IntResult(0)
        /\ (lastOp'.name \in ReadOps /\ Rank(before) = 2) =>
               /\ lastResult'.n = 0
               /\ lastResult'.data = <<>>

----------------------------------------------------------------------------
(* Claims about the order of the output *)

\* s is the end of t
IsSuffix(s, t) ==
    Len(s) <= Len(t) /\ s = SubSeq(t, Len(t) - Len(s) + 1, Len(t))

\* the frames of s are in input-time order, none repeated
InTimeOrder(s) == \A i, j \in 1..Len(s) : i < j => s[i] < s[j]

\* C13: output samples appear in input-time order: what the successive reads of
\* a caller return, concatenated, is the synthesized output with nothing
\* reordered, duplicated or dropped: for SpeedyWasmWrapper the chunks that
\* flush() collects and the array process() returns, followed by what is still
\* unread, are the end of the engine's output; for the demo's write-then-drain
\* and flush-then-drain loops the chunks collected, followed by what is still
\* unread, are all of it.
C13_OutputInOrder ==
    /\ (app = "wrapper" /\ sw.streamPtr # 0) =>
          /\ swPc = "draining" =>
                IsSuffix(outputChunks \o SwEngine.outRing, SwEngine.produced)
          /\ (swPc = "idle" /\ lastOp.name \in {"flush", "process"} /\ lastError = "none") =>
                IsSuffix(lastResult.data \o SwEngine.outRing, SwEngine.produced)
          /\ (swPc = "idle" /\ lastOp.name = "flush" /\ lastError = "none") =>
                SwEngine.outRing = <<>>
    /\ (app = "demo" /\ wrappers[1].alive) =>
          /\ demo.processedChunks \o Engine(1).outRing = Engine(1).produced
          /\ InTimeOrder(demo.processedChunks)
          /\ demo.pc \in {"getSpeedProfile", "done"} => Engine(1).outRing = <<>>

\* the demo has finished and its output took more than one read to collect
C13_Witness ==
    /\ app = "demo"
    /\ demo.pc = "done"
    /\ Len(demo.processedChunks) > chunkSize

\* s is the beginning of t
IsPrefix(s, t) == Len(s) <= Len(t) /\ s = SubSeq(t, 1, Len(s))

\* one step of the stream of wrapper w: the output already synthesized stays as
\* it is, the unread part of it stays in the output ring in place (a read takes
\* from its front), and what the step synthesizes is appended behind it
C14_Step(w) ==
    LET before == Engine(w)
        after == engines'[wrappers'[w].stream]
        new == SubSeq(after.produced, Len(before.produced) + 1, Len(after.produced))
    IN  /\ IsPrefix(before.produced, after.produced)
        /\ \E k \in 0..Len(before.outRing) :
              after.outRing = SubSeq(before.outRing, k + 1, Len(before.outRing)) \o new
        /\ lastOp'.name = "setSpeed" =>
              /\ after.outRing = before.outRing
              /\ after.produced = before.produced
              /\ after.inRing = before.inRing
        /\ lastOp'.name \notin ReadOps => IsPrefix(before.outRing, after.outRing)

\* C14: changing the target speed between writes (setSpeed, also through the
\* worklet's 'setSpeed' message) affects only output synthesized afterwards:
\* samples already in the output ring or already read are never revised, and no
\* later input alters them.
C14_SpeedChangeNotRetroactive ==
    [][\A w \in Wrappers :
          (wrappers[w].alive /\ wrappers'[w].alive /\ lastOp'.w = w) => C14_Step(w)]_vars

\* the speed was changed with output both already read and still unread, and
\* input still waiting in the ring to be synthesized at the new speed
C14_Witness ==
    /\ wrappers[1].alive
    /\ lastOp.name = "setSpeed"
    /\ Engine(1).speed = 2 * SpeedUnit
    /\ Engine(1).outRing # <<>>
    /\ Len(Engine(1).produced) > Len(Engine(1).outRing)
    /\ Engine(1).inRing # <<>>

----------------------------------------------------------------------------
(* Claims about linear operation *)

\* processAndPlay has configured its linear reference stream
LinearConfigured ==
    /\ app = "demo"
    /\ demo.linearRefEnabled
    /\ demo.pc \in {"linearSetDurationFeedbackStrength", "linearSetupSpeedCallback",
                    "write", "linearWrite", "drain", "linearDrain", "flushDrain",
                    "linearFlush", "linearFlushDrain", "getSpeedProfile", "done"}

\* every speed point the engine of wrapper w has finalized carries the speed rg
AllPointsAt(w, rg) == \A i \in 1..Len(emitLog[w]) : emitLog[w][i][2] = rg

\* C15: with the nonlinear factor at 0 the effective speed of every frame is
\* the global rate Rg, whatever the tension of the frame; the demo's linear
\* reference stream, set up with enableNonlinearSpeedup(0), is such a stream:
\* every frame it processes is processed at the speed of the demo's controls.
C15_LinearIsUniform ==
    /\ \A w \in Wrappers :
          (wrappers[w].alive /\ Engine(w).nonlinear = 0)
             => EffSpeed(Engine(w)) = Engine(w).speed
    /\ LinearConfigured
          => /\ Engine(2).nonlinear = 0
             /\ AllPointsAt(2, demo.speed)

\* a run of the demo in which the processed stream followed the tension of the
\* signal while the linear stream, fed the same frames, stayed at Rg
C15_Witness ==
    /\ LinearConfigured
    /\ demo.pc = "done"
    /\ Len(emitLog[2]) > 1
    /\ AllPointsAt(2, demo.speed)
    /\ ~AllPointsAt(1, demo.speed)
    /\ \E i \in 1..Len(emitLog[2]) :
          SpeedFor(TensionOf(emitLog[2][i][1]), demo.speed) # demo.speed

\* |a - b|
Dist(a, b) == IF a >= b THEN a - b ELSE b - a

\* processAndPlay has flushed its linear reference stream and left the drain
\* loop that follows
LinearDrained ==
    /\ LinearConfigured
    /\ demo.pc \in {"getSpeedProfile", "done"}

----------------------------------------------------------------------------
(* Claims about the input of a SpeedyStream *)

\* the last call was an addData or addDataShort with an array shorter than a frame
ShortFrameAdded ==
    /\ lastOp.name \in {"addData", "addDataShort"}
    /\ lastOp.args[1] < speedyInputFrameSize

\* C17: addData and addDataShort never hand the engine an array of fewer than
\* inputFrameSize() samples: the call raises an error and adds no frame.
C17_ShortInputRejected ==
    ShortFrameAdded => (lastError # "none" /\ speedy.current # lastOp.args[2])

----------------------------------------------------------------------------
(* Claims about the AudioRingBuffer *)

RECURSIVE Buffered(_, _)
\* the n frames stored from position readIndex on, oldest first
Buffered(readIndex, n) ==
    IF n = 0 THEN <<>>
    ELSE <<ringBuffer.storage[(readIndex % capacity) * channelCount]>>
            \o Buffered(readIndex + 1, n - 1)

\* the frames between the two indices of the header
BufferedNow ==
    Buffered(ringBuffer.header[1], available(ringBuffer.header[0], ringBuffer.header[1]))

\* the two threads are about to touch the same element of the storage
SlotRace ==
    /\ ringBuffer.main.op = "write" /\ ringBuffer.main.pc = "copy"
    /\ ringBuffer.audio.op = "read" /\ ringBuffer.audio.pc = "copy"
    /\ WritePos(ringBuffer.main.writeIndex, ringBuffer.main.i)
          = ReadPos(ringBuffer.audio.readIndex, ringBuffer.audio.i)

\* C18: with the main thread writing and the audio thread reading concurrently,
\* under every interleaving of their steps the samples returned by successful
\* reads are the samples accepted by successful writes, in order and once each:
\* what has been returned and what is still buffered make up what was accepted,
\* a read in progress has copied the frames that follow those returned, and no
\* read touches an element a write is filling.
C18_SamplesOnceInOrder ==
    app = "streaming"
       => /\ ringBuffer.accepted = ringBuffer.returned \o BufferedNow
          /\ (ringBuffer.audio.op = "read" /\ ringBuffer.audio.pc \in {"copy", "store"})
                => IsPrefix(ringBuffer.returned \o ringBuffer.audio.data, ringBuffer.accepted)
          /\ ~SlotRace

\* both threads are in the middle of a copy, the write about to fill the
\* first frame of the storage again after the last
C18_Witness ==
    /\ app = "streaming"
    /\ ringBuffer.main.op = "write" /\ ringBuffer.main.pc = "copy"
    /\ ringBuffer.audio.op = "read" /\ ringBuffer.audio.pc = "copy"
    /\ ringBuffer.main.i > 0
    /\ ringBuffer.audio.i > 0
    /\ ringBuffer.main.writeIndex + ringBuffer.main.i = capacity
    /\ Len(ringBuffer.returned) > 0

\* the state part of C19: the indices, the count of buffered frames and what
\* available() reported are in range, and the count is that of the frames
\* accepted and not yet returned
C19_InRange ==
    app = "streaming"
       => /\ ringBuffer.header[0] \in 0..(capacity - 1)
          /\ ringBuffer.header[1] \in 0..(capacity - 1)
          /\ available(ringBuffer.header[0], ringBuffer.header[1]) \in 0..(capacity - 1)
          /\ available(ringBuffer.header[0], ringBuffer.header[1])
                = Len(ringBuffer.accepted) - Len(ringBuffer.returned)
          /\ \A thread \in {"main", "audio"} :
                (ringBuffer[thread].op = "available" /\ ringBuffer[thread].pc = "idle")
                   => ringBuffer[thread].reported \in 0..(capacity - 1)

\* the step part of C19: the store of a successful write moves writeIndex
\* forward by the frames written without reaching readIndex
C19_WriteStep ==
    (ringBuffer.main.pc = "store" /\ ringBuffer'.main.pc = "idle")
       => /\ ringBuffer'.header[0] # ringBuffer.header[0]
                => ringBuffer'.header[0] # ringBuffer.header[1]
          /\ available(ringBuffer'.header[0], ringBuffer.header[1])
                = available(ringBuffer.header[0], ringBuffer.header[1])
                     + Len(ringBuffer.main.data)

WriteDoesNotFit ==
    /\ ringBuffer.main.op = "write"
    /\ ringBuffer.main.pc = "loadReadIndex"
    /\ availableSpace(ringBuffer.main.writeIndex, ringBuffer.header[1])
          < Len(ringBuffer.main.data) + 1

\* the audio thread is at the underflow test of a read of more than is buffered
ReadAsksTooMuch ==
    /\ ringBuffer.audio.op = "read"
    /\ ringBuffer.audio.pc = "loadReadIndex"
    /\ available(ringBuffer.audio.writeIndex, ringBuffer.header[1]) < ringBuffer.audio.count

\* a step that leaves the header, the storage and the history as they are
RingUntouched ==
    /\ ringBuffer'.header = ringBuffer.header
    /\ ringBuffer'.storage = ringBuffer.storage
    /\ ringBuffer'.accepted = ringBuffer.accepted
    /\ ringBuffer'.returned = ringBuffer.returned

C20_Step ==
    /\ (WriteDoesNotFit /\ ringBuffer'.main # ringBuffer.main)
          => /\ ringBuffer'.main.pc = "idle"
             /\ ringBuffer'.main.result = "false"
             /\ ringBuffer'.main.i = 0
             /\ RingUntouched
    /\ (ReadAsksTooMuch /\ ringBuffer'.audio # ringBuffer.audio)
          => /\ ringBuffer'.audio.pc = "idle"
             /\ ringBuffer'.audio.result = "false"
             /\ ringBuffer'.audio.data = <<>>
             /\ RingUntouched
    /\ (ringBuffer.main.op = "write" /\ ringBuffer.main.pc = "idle"
           /\ ringBuffer'.main.op = "write" /\ ringBuffer'.main.pc = "loadReadIndex")
          => RingUntouched
    /\ (ringBuffer.audio.pc = "idle"
           /\ ringBuffer'.audio.op = "read" /\ ringBuffer'.audio.pc = "loadReadIndex")
          => RingUntouched

\* C20: a write whose input does not fit (free space < inputLen + 1) and a
\* read that asks for more frames than are buffered (available < count) return
\* false and change neither index nor any stored sample: no step of such a
\* call, from its first load to its return, touches the header or the storage,
\* and the read leaves outputData as it was.
C20_RefusedCallsChangeNothing == [][C20_Step]_vars

\* with frames in the buffer, a write of several frames and a read of several
\* frames have both been refused
C20_Witness ==
    /\ app = "streaming"
    /\ ringBuffer.main.op = "write" /\ ringBuffer.main.pc = "idle"
    /\ ringBuffer.main.result = "false"
    /\ Len(ringBuffer.main.data) \in 2..(capacity - 1)
    /\ ringBuffer.audio.op = "read" /\ ringBuffer.audio.pc = "idle"
    /\ ringBuffer.audio.result = "false"
    /\ ringBuffer.audio.count \in 2..(capacity - 1)
    /\ ringBuffer.header[0] # ringBuffer.header[1]

----------------------------------------------------------------------------
(* Claims about the data handed to the Sonic stream *)

\* the last call was a process() that reached writeFloat
ProcessWrote == app = "wrapper" /\ lastOp.name = "process" /\ lastError = "none"

\* C23: SpeedyWasmWrapper.process never tells the engine to read more samples
\* than it copied into the input buffer: the per-channel count handed to
\* writeFloat times numChannels is at most the number of floats copied and at
\* most the size of the input buffer.
C23_WriteWithinCopied ==
    ProcessWrote
       => /\ lastOp.args[4] * sw.numChannels <= lastOp.args[5]
          /\ lastOp.args[4] * sw.numChannels <= sw.inputBufferSize * sw.numChannels

----------------------------------------------------------------------------
(* speedy-worklet.js: SpeedyProcessor, the AudioWorkletProcessor of the
   streaming page. Its ringBuffer is the reader rebuilt in the constructor
   over the SharedArrayBuffer; read and available of that object are the
   same statements as AudioRingBuffer.read and AudioRingBuffer.available *)

\* "this.bufferSize = 4096; // Max chunks size for Sonic"
bufferSize == MaxChunk

\* "const frameCount = channel0.length; // Usually 128", one render quantum
frameCount == Period

\* a message on a MessagePort: { type, payload }
Message(type, payload) == [type |-> type, payload |-> payload]

\* constructor(options): the fields, the reader over options.processorOptions
SpeedyProcessor(node) == [NoProcessor EXCEPT !.node = node, !.active = TRUE]

\* the audio thread is at pc of a process() call of a processor that runs
ProcessorAt(pc) ==
    /\ app = "streaming"
    /\ processor.node # 0
    /\ processor.pc = pc

\* initWasm(), after "await initSpeedy()": the module stays in a local
\* constant, this.sonic is created, "this.ready = true" and 'ready' is posted
initWasm ==
    /\ ProcessorAt("idle")
    /\ ~processor.ready
    /\ SonicStreamWrapper(processor.node, streamingDemo.sampleRate, channelCount)
    /\ processor' = [processor EXCEPT !.sonic = processor.node, !.ready = TRUE]
    /\ streamingDemo' = [streamingDemo EXCEPT
            !.inbox = Append(@, Message("ready", processor.node))]
    /\ UNCHANGED ringBuffer

\* this.port.onmessage = handleMessage: "if (!this.ready) return", the switch
port_onmessage ==
    /\ ProcessorAt("idle")
    /\ processor.inbox # <<>>
    /\ LET event == Head(processor.inbox)
       IN  IF processor.ready
           THEN /\ handleMessage(processor.sonic, event.type, event.payload)
                /\ processor' = [processor EXCEPT !.inbox = Tail(@),
                                                  !.handled = event.type]
           ELSE /\ processor' = [processor EXCEPT !.inbox = Tail(@)]
                /\ UNCHANGED <<bindVars, callVars>>
    /\ UNCHANGED <<ringBuffer, streamingDemo>>

\* a processor that asks for a full buffer whatever is available
ToRead_all(avail, size) == size

\* "const toRead = Math.min(available, this.bufferSize)"
ToRead(avail, size) == Min(avail, size)

\* process() is called every render quantum for a processor that has not
\* thrown, whether or not its node is connected; with "!this.ready ||
\* !this.ringBuffer" it returns true at once, else it calls
\* this.ringBuffer.available()
process ==
    /\ ProcessorAt("idle")
    /\ processor.active
    /\ processor.ready
    /\ available_call("audio")
    /\ processor' = [processor EXCEPT !.pc = "available", !.toRead = 0,
                                      !.tempInput = <<>>]
    /\ UNCHANGED <<streamingDemo, bindVars, callVars>>

\* available() returns; "if (toRead > 0)" allocates tempInput, filled with zeros
process_available ==
    /\ ProcessorAt("available")
    /\ available_return("audio")
    /\ LET toRead == ToRead(ringBuffer'.audio.reported, bufferSize)
       IN  processor' = [processor EXCEPT
              !.toRead = toRead,
              !.tempInput = [k \in 1..toRead |-> 0],
              !.pc = IF toRead > 0 THEN "read" ELSE "readSonic"]
    /\ UNCHANGED <<streamingDemo, bindVars, callVars>>

\* "this.ringBuffer.read(tempInput, toRead)": the call
process_read ==
    /\ ProcessorAt("read")
    /\ read(processor.toRead)
    /\ processor' = [processor EXCEPT !.pc = "reading"]
    /\ UNCHANGED <<streamingDemo, bindVars, callVars>>

\* the steps of that read; its return value is not looked at, tempInput holds
\* what the read has copied into it
process_reading ==
    /\ ProcessorAt("reading")
    /\ read_loadReadIndex \/ read_copy \/ read_store
    /\ processor' = [processor EXCEPT
          !.tempInput = [k \in 1..processor.toRead |->
                            IF k <= Len(ringBuffer'.audio.data)
                            THEN ringBuffer'.audio.data[k] ELSE 0],
          !.pc = IF ringBuffer'.audio.pc = "idle" THEN "heap" ELSE "reading"]
    /\ UNCHANGED <<streamingDemo, bindVars, callVars>>

\* "new Float32Array(this.module.HEAPF32.buffer, ...)": this.module is never
\* assigned, the expression throws a TypeError and process() ends there; with
\* a module, the block is copied to the heap and
\* "this.sonic.writeFloatToStreamPtr(this.inputBufferPtr, toRead)" is called
process_heap ==
    /\ ProcessorAt("heap")
    /\ IF processor.module
       THEN /\ writeFloatToStreamPtr(processor.sonic, processor.tempInput)
            /\ processor' = [processor EXCEPT !.written = @ \o processor.tempInput,
                                              !.pc = "readSonic"]
       ELSE /\ processor' = [processor EXCEPT !.active = FALSE, !.pc = "idle",
                                              !.error = "TypeError"]
            /\ UNCHANGED <<bindVars, callVars>>
    /\ UNCHANGED <<ringBuffer, streamingDemo>>

\* "const samplesRead = this.sonic.readFloatFromStreamPtr(this.outputBufferPtr,
\* frameCount)"; "if (samplesRead > 0)" reads this.module.HEAPF32 again
process_readSonic ==
    /\ ProcessorAt("readSonic")
    /\ readFloatFromStreamPtr(processor.sonic, frameCount)
    /\ LET r == sonicReadFloatFromStream(Engine(processor.sonic), frameCount)
       IN  processor' =
             IF r.ret > 0 /\ ~processor.module
             THEN [processor EXCEPT !.active = FALSE, !.pc = "idle",
                                    !.error = "TypeError"]
             ELSE [processor EXCEPT !.played = @ \o r.data, !.pc = "idle"]
    /\ UNCHANGED <<ringBuffer, streamingDemo>>

\* the audio thread
ProcessorOps ==
    \/ initWasm
    \/ port_onmessage
    \/ process
    \/ process_available
    \/ process_read
    \/ process_reading
    \/ process_heap
    \/ process_readSonic

----------------------------------------------------------------------------
(* streaming-demo.js: StreamingDemo. The handlers of the main thread run one
   at a time; the ring-buffer calls inside pushLoop are steps of their own,
   because the audio thread runs beside them *)

\* "const toWrite = Math.min(chunkSize * 4, rawData.length - offset)": the
\* frames of one push, chunkSize * 4
pushChunk == 3

\* input events of the speed slider that the model follows
MaxSlides == 1

\* the main thread is between two tasks
MainIdle == app = "streaming" /\ streamingDemo.running = 0

\* the main thread is at pc of a pushLoop call
PushAt(pc) ==
    /\ app = "streaming"
    /\ streamingDemo.running # 0
    /\ streamingDemo.pc = pc

\* stop(): "this.isPlaying = false; if (this.pushInterval)
\* cancelAnimationFrame(this.pushInterval); if (this.workletNode) {
\* this.workletNode.disconnect(); this.workletNode = null; }", the buttons
stop(sd) ==
    [sd EXCEPT
       !.isPlaying = FALSE,
       !.loops = [k \in 1..MaxClicks |->
                     IF k = sd.pushInterval /\ sd.loops[k].state = "scheduled"
                     THEN [sd.loops[k] EXCEPT !.state = "cancelled"]
                     ELSE sd.loops[k]],
       !.connected = @ \ {sd.workletNode},
       !.workletNode = 0,
       !.playBtnDisabled = FALSE,
       !.stopBtnDisabled = TRUE]

\* startStreaming() from "this.isPlaying = true" to the call "pushLoop()":
\* invocation i of startStreaming has its own offset and its own pushLoop
startStreaming_play(sd, i) ==
    [sd EXCEPT
       !.calls[i] = "done",
       !.isPlaying = TRUE,
       !.playBtnDisabled = TRUE,
       !.stopBtnDisabled = FALSE,
       !.loops[i] = [state |-> "running", offset |-> 0, toWrite |-> 0],
       !.running = i,
       !.pc = "begin"]

\* a click on the play button: startStreaming() up to
\* "await this.context.resume()"
startStreaming ==
    /\ MainIdle
    /\ ~streamingDemo.playBtnDisabled
    /\ streamingDemo.clicks < MaxClicks
    /\ LET i == streamingDemo.clicks + 1
       IN  streamingDemo' =
             IF streamingDemo.isPlaying \/ streamingDemo.sourceLen = 0
             THEN [streamingDemo EXCEPT !.clicks = i, !.calls[i] = "done"]
             ELSE [streamingDemo EXCEPT !.clicks = i, !.calls[i] = "resume"]
    /\ UNCHANGED <<ringBuffer, processor, bindVars, callVars>>

\* context.resume() has resolved: initAudioWorklet() runs up to
\* "await this.context.audioWorklet.addModule(...)", or returns at
\* "if (this.workletNode) return" and startStreaming goes on
startStreaming_resumed(i) ==
    /\ MainIdle
    /\ streamingDemo.calls[i] = "resume"
    /\ streamingDemo' =
          IF streamingDemo.workletNode # 0
          THEN startStreaming_play(streamingDemo, i)
          ELSE [streamingDemo EXCEPT !.calls[i] = "addModule"]
    /\ UNCHANGED <<ringBuffer, processor, bindVars, callVars>>

\* addModule has resolved: the rest of initAudioWorklet(), "const capacity =
\* this.context.sampleRate * 1", a new AudioRingBuffer, a new AudioWorkletNode
\* (whose processor is constructed) connected to the destination; then
\* startStreaming goes on
initAudioWorklet(i) ==
    /\ MainIdle
    /\ streamingDemo.calls[i] = "addModule"
    /\ streamingDemo.nodes < Cardinality(Wrappers)
    /\ LET node == streamingDemo.nodes + 1
       IN  /\ ringBuffer' = AudioRingBuffer(streamingDemo.sampleRate * 1)
           /\ processor' = SpeedyProcessor(node)
           /\ streamingDemo' = startStreaming_play(
                 [streamingDemo EXCEPT !.nodes = node, !.workletNode = node,
                                       !.connected = @ \cup {node}], i)
    /\ UNCHANGED <<bindVars, callVars>>

\* the animation frame of loop k: pushLoop is called
pushLoop(k) ==
    /\ MainIdle
    /\ streamingDemo.loops[k].state = "scheduled"
    /\ streamingDemo' = [streamingDemo EXCEPT !.loops[k].state = "running",
                                              !.running = k, !.pc = "begin"]
    /\ UNCHANGED <<ringBuffer, processor, bindVars, callVars>>

\* "this.pushInterval = requestAnimationFrame(pushLoop)" and the return
Reschedule(sd) ==
    [sd EXCEPT !.loops[sd.running].state = "scheduled",
               !.pushInterval = sd.running, !.running = 0, !.pc = "idle"]

\* "if (!this.isPlaying) return", else the call of
\* "this.ringBuffer.available()" in the test of line 147
pushLoop_begin ==
    /\ PushAt("begin")
    /\ IF streamingDemo.isPlaying
       THEN /\ available_call("main")
            /\ streamingDemo' = [streamingDemo EXCEPT !.pc = "available"]
       ELSE /\ streamingDemo' = [streamingDemo EXCEPT
                  !.loops[streamingDemo.running].state = "ended",
                  !.running = 0, !.pc = "idle"]
            /\ UNCHANGED ringBuffer
    /\ UNCHANGED <<processor, bindVars, callVars>>

\* "if (this.ringBuffer.available() < this.ringBuffer.capacity * 0.8)" and
\* "if (toWrite > 0)"
pushLoop_available ==
    /\ PushAt("available")
    /\ available_return("main")
    /\ LET k == streamingDemo.running
           toWrite == Min(pushChunk, streamingDemo.sourceLen - streamingDemo.loops[k].offset)
       IN  streamingDemo' =
             IF 10 * ringBuffer'.main.reported < 8 * capacity /\ toWrite > 0
             THEN [streamingDemo EXCEPT !.loops[k].toWrite = toWrite, !.pc = "write"]
             ELSE Reschedule(streamingDemo)
    /\ UNCHANGED <<processor, bindVars, callVars>>

\* "const chunk = rawData.subarray(offset, offset + toWrite);
\* const success = this.ringBuffer.write([chunk])": the call
pushLoop_write ==
    /\ PushAt("write")
    /\ LET l == streamingDemo.loops[streamingDemo.running]
       IN  write(FramesFrom(l.offset, l.toWrite))
    /\ streamingDemo' = [streamingDemo EXCEPT !.pc = "writing"]
    /\ UNCHANGED <<processor, bindVars, callVars>>

\* the steps of that write; when it returns: "if (success) { offset += toWrite;
\* if (offset >= rawData.length) { this.stop(); return; } }", else the next
\* animation frame is requested
pushLoop_writing ==
    /\ PushAt("writing")
    /\ write_loadReadIndex \/ write_copy \/ write_store
    /\ LET k == streamingDemo.running
           l == streamingDemo.loops[k]
           offset == l.offset + l.toWrite
       IN  streamingDemo' =
             IF ringBuffer'.main.pc # "idle" THEN streamingDemo
             ELSE IF ringBuffer'.main.result # "true" THEN Reschedule(streamingDemo)
             ELSE IF offset >= streamingDemo.sourceLen
             THEN [stop([streamingDemo EXCEPT !.loops[k].offset = offset])
                      EXCEPT !.loops[k].state = "ended", !.running = 0,
                             !.pc = "idle", !.eof = TRUE]
             ELSE Reschedule([streamingDemo EXCEPT !.loops[k].offset = offset])
    /\ UNCHANGED <<processor, bindVars, callVars>>

\* a click on the stop button
stop_click ==
    /\ MainIdle
    /\ ~streamingDemo.stopBtnDisabled
    /\ streamingDemo' = [stop(streamingDemo) EXCEPT !.stopClicked = TRUE]
    /\ UNCHANGED <<ringBuffer, processor, bindVars, callVars>>

\* this.workletNode.port.onmessage: on 'ready' the demo posts 'setSpeed' with
\* the slider's value and { type: 'setNonlinear', payload: 1.0 } to
\* this.workletNode.port; this.workletNode is null after stop()
workletNode_onmessage ==
    /\ MainIdle
    /\ streamingDemo.inbox # <<>>
    /\ LET event == Head(streamingDemo.inbox)
       IN  IF event.type # "ready"
           THEN /\ streamingDemo' = [streamingDemo EXCEPT !.inbox = Tail(@)]
                /\ UNCHANGED processor
           ELSE IF streamingDemo.workletNode = 0
           THEN /\ streamingDemo' = [streamingDemo EXCEPT !.inbox = Tail(@),
                                                          !.error = "TypeError"]
                /\ UNCHANGED processor
           ELSE /\ streamingDemo' = [streamingDemo EXCEPT !.inbox = Tail(@)]
                /\ processor' = [processor EXCEPT !.inbox = @ \o
                       <<Message("setSpeed", streamingDemo.speed),
                         Message("setNonlinear", MaxNonlinear)>>]
    /\ UNCHANGED <<ringBuffer, bindVars, callVars>>

\* the speed slider's input event: "if (this.workletNode)
\* this.workletNode.port.postMessage({ type: 'setSpeed', payload: val })"
speed_input(val) ==
    /\ MainIdle
    /\ val # streamingDemo.speed
    /\ streamingDemo.slides < MaxSlides
    /\ streamingDemo' = [streamingDemo EXCEPT !.speed = val, !.slides = @ + 1]
    /\ processor' = IF streamingDemo.workletNode # 0
                    THEN [processor EXCEPT !.inbox = Append(@, Message("setSpeed", val))]
                    ELSE processor
    /\ UNCHANGED <<ringBuffer, bindVars, callVars>>

\* the main thread
StreamingDemoOps ==
    \/ startStreaming
    \/ \E i \in 1..MaxClicks : startStreaming_resumed(i)
    \/ \E i \in 1..MaxClicks : initAudioWorklet(i)
    \/ \E k \in 1..MaxClicks : pushLoop(k)
    \/ pushLoop_begin
    \/ pushLoop_available
    \/ pushLoop_write
    \/ pushLoop_writing
    \/ stop_click
    \/ workletNode_onmessage
    \/ \E val \in {SpeedUnit, 2 * SpeedUnit} : speed_input(val)

----------------------------------------------------------------------------
(* Specification of the streaming page *)

\* the sample rates of the audio context: one that makes the ring buffer no
\* larger than one push, one that makes it larger
ContextSampleRates == {pushChunk, MaxCapacity}

\* the lengths of the decoded file: shorter than one push, longer than one
SourceLengths == {1, pushChunk + 1}

InitStreaming ==
    /\ app = "streaming"
    /\ InitStreams
    /\ sw = SwNew
    /\ swPc = "idle"
    /\ outputChunks = <<>>
    /\ submitted = 0
    /\ demo = DemoIdle
    /\ speedy = NoSpeedy
    /\ ringBuffer = AudioRingBuffer(MaxCapacity)
    /\ processor = NoProcessor
    /\ playback = NoPlayback
    /\ \E sourceLen \in SourceLengths, sampleRate \in ContextSampleRates,
          stopBtnDisabled \in BOOLEAN :
          streamingDemo = StreamingDemo(sourceLen, sampleRate, stopBtnDisabled)

NextStreaming ==
    \/ StreamingDemoOps /\ UNCHANGED <<app, swVars, demo, speedy, playback>>
    \/ ProcessorOps /\ UNCHANGED <<app, swVars, demo, speedy, playback>>

SpecStreaming == InitStreaming /\ [][NextStreaming]_vars

----------------------------------------------------------------------------
(* Claims about the streaming page *)

\* C21: every block of frames that SpeedyProcessor.process removes from the
\* ring buffer is written to the Sonic stream within the same process call:
\* between two process calls, the frames the ring buffer has returned are the
\* frames handed to writeFloatToStreamPtr
C21_RemovedBlocksWritten ==
    (app = "streaming" /\ processor.node # 0 /\ processor.pc = "idle")
        => processor.written = ringBuffer.returned

\* C22: in SpeedyProcessor.process the read of toRead frames that follows
\* available() succeeds under every interleaving with the writer on the main
\* thread: the block that process has ready for the Sonic stream is made of
\* the frames the writer buffered, in order, and holds no unfilled (zero) frame
C22_ReadAfterAvailableSucceeds ==
    (app = "streaming" /\ processor.pc = "heap")
        => /\ processor.toRead > 0
           /\ ringBuffer.audio.result = "true"
           /\ Len(processor.tempInput) = processor.toRead
           /\ \A k \in 1..processor.toRead : processor.tempInput[k] # 0
           /\ processor.tempInput =
                 SubSeq(ringBuffer.accepted,
                        Len(ringBuffer.returned) - processor.toRead + 1,
                        Len(ringBuffer.returned))

\* a read that has succeeded while the writer is inside a write
C22_Witness ==
    /\ app = "streaming"
    /\ processor.pc = "heap"
    /\ ringBuffer.audio.result = "true"
    /\ ringBuffer.main.op = "write"
    /\ ringBuffer.main.pc \in {"copy", "store"}
    /\ Len(ringBuffer.accepted) > 0

\* C27: once the processor has handled the 'setNonlinear' message that the
\* demo posts on 'ready', nonlinear speedup is enabled on the worklet's Sonic
\* stream with the posted factor
C27_SetNonlinearEnables ==
    (app = "streaming" /\ processor.handled = "setNonlinear")
        => Engine(processor.sonic).nonlinear = MaxNonlinear

\* the pushLoops that will run again or are running
ActiveLoops ==
    {k \in 1..MaxClicks : streamingDemo.loops[k].state \in {"scheduled", "running"}}

\* C24: at most one pushLoop feeds the ring buffer and at most one
\* AudioWorkletNode is connected at any time, also when startStreaming is
\* invoked again while an earlier invocation is still awaiting
C24_OneProducerOnePair ==
    app = "streaming"
        => /\ Cardinality(ActiveLoops) <= 1
           /\ Cardinality(streamingDemo.connected) <= 1

\* C25: when the push loop stops the stream at the end of the file, every
\* frame the ring buffer accepted has been taken out by the worklet and
\* handed to the Sonic stream: no buffered audio is discarded by the stop
C25_BufferedAudioReachesSonic ==
    (app = "streaming" /\ streamingDemo.eof)
        => /\ ringBuffer.returned = ringBuffer.accepted
           /\ processor.written = ringBuffer.accepted

\* what the streaming page leaves alone
streamingFrame == <<app, swVars, demo, speedy, playback>>

\* the steps of the main thread that no user has to take: promise
\* continuations, message events and the body of a pushLoop call
MainSteps ==
    \/ \E i \in 1..MaxClicks : startStreaming_resumed(i)
    \/ \E i \in 1..MaxClicks : initAudioWorklet(i)
    \/ pushLoop_begin
    \/ pushLoop_available
    \/ pushLoop_write
    \/ pushLoop_writing
    \/ workletNode_onmessage

\* the browser resolves promises, delivers messages, runs every requested
\* animation frame and calls process() every render quantum
FairStreaming ==
    /\ SpecStreaming
    /\ WF_vars(MainSteps /\ UNCHANGED streamingFrame)
    /\ \A k \in 1..MaxClicks : WF_vars(pushLoop(k) /\ UNCHANGED streamingFrame)
    /\ WF_vars(ProcessorOps /\ UNCHANGED streamingFrame)

\* C26: while streaming is active and the worklet keeps consuming, the push
\* loop gets every frame of the source into the ring buffer: a stream that is
\* playing reaches the end of the file, unless the user stops it or the
\* processor has stopped running
C26_OffsetReachesEnd ==
    (app = "streaming" /\ streamingDemo.isPlaying)
        ~> (streamingDemo.eof \/ streamingDemo.stopClicked \/ ~processor.active)

----------------------------------------------------------------------------
(* app.js: SpeedyDemo playback. Every handler is one task of the main thread;
   the audio processing inside processAndPlay is the subject of the demo_
   actions above and leaves the playback fields alone *)

BufferTypes == {"original", "linear", "processed"}

\* "type === 'original' ? this.originalBuffer : type === 'linear' ?
\* this.linearBuffer : this.processedBuffer": is there such a buffer
BufferOf(p, type) ==
    IF type = "original" THEN p.originalBuffer
    ELSE IF type = "linear" THEN p.linearBuffer
    ELSE p.processedBuffer

\* "this.playbackState.isPlaying && !this.playbackState.isPaused"
Playing(p) == p.isPlaying /\ ~p.isPaused

\* this.sourceNode.stop(): a node that plays ends, and its ended event is
\* queued; stopping a node that has ended throws, which the callers catch
sourceNode_stop(p) ==
    IF p.sourceNode # 0 /\ p.sources[p.sourceNode] = "playing"
    THEN [p EXCEPT !.sources[p.sourceNode] = "ended"]
    ELSE p

\* stopPlayback(reset)
stopPlayback(p) ==
    [sourceNode_stop(p) EXCEPT !.sourceNode = 0, !.animationId = 0,
                               !.isPlaying = FALSE, !.isPaused = FALSE]

\* playBuffer(buffer, bufferType, offset): a new source node with the next
\* id is created and started, the animation is started
playBuffer(p, bufferType) ==
    LET currentSourceId == p.sourceIdCounter + 1
    IN  [p EXCEPT !.sourceIdCounter = currentSourceId,
                  !.sourceNode = currentSourceId,
                  !.sources[currentSourceId] = "playing",
                  !.isPlaying = TRUE, !.isPaused = FALSE,
                  !.currentBuffer = bufferType,
                  !.selectedBufferType = bufferType,
                  !.animationId = currentSourceId]

\* setBufferSelection(type)
setBufferSelection(p, type) ==
    IF p.selectedBufferType = type THEN p
    ELSE LET q == [p EXCEPT !.selectedBufferType = type]
         IN  IF Playing(q) /\ BufferOf(q, type)
             THEN playBuffer(stopPlayback(q), type)
             ELSE q

\* pausePlayback()
pausePlayback(p) ==
    IF p.sourceNode # 0 /\ Playing(p)
    THEN [sourceNode_stop(p) EXCEPT !.isPaused = TRUE, !.sourceNode = 0]
    ELSE p

\* resumePlayback()
resumePlayback(p) ==
    IF ~BufferOf(p, p.selectedBufferType) THEN p
    ELSE playBuffer(p, p.selectedBufferType)

\* a handler of the page has run and left the playback fields as q
PlaybackEvent(name, q) ==
    /\ app = "demo"
    /\ playback.originalBuffer
    /\ q.sourceIdCounter <= MaxSources
    /\ playback' = [q EXCEPT !.lastEvent = [name |-> name, id |-> 0]]

\* click on playPauseBtn, enabled while the selected buffer exists
playPauseBtn_click ==
    /\ BufferOf(playback, playback.selectedBufferType)
    /\ PlaybackEvent("playPause",
          IF Playing(playback) THEN pausePlayback(playback)
          ELSE resumePlayback(playback))

\* click on stopBtn: stopPlayback()
stopBtn_click == PlaybackEvent("stop", stopPlayback(playback))

\* click on playOriginalBtn, playLinearBtn or playProcessedBtn, each enabled
\* while its buffer exists
bufferBtn_click(type) ==
    /\ BufferOf(playback, type)
    /\ type # playback.selectedBufferType
    /\ PlaybackEvent("select", setBufferSelection(playback, type))

\* waveformViewer.onSeek(time): "this.stopPlayback(false);
\* this.playBuffer(buffer, this.selectedBufferType, time)"
onSeek ==
    /\ BufferOf(playback, playback.selectedBufferType)
    /\ PlaybackEvent("seek",
          playBuffer(stopPlayback(playback), playback.selectedBufferType))

\* waveformViewer.onSelectionChange(selection) and clearSelection(): playback
\* that is running is restarted
onSelectionChange ==
    /\ Playing(playback)
    /\ BufferOf(playback, playback.selectedBufferType)
    /\ PlaybackEvent("selection",
          playBuffer(stopPlayback(playback), playback.selectedBufferType))

\* click on processBtn: processAndPlay() up to its first
\* "await new Promise(r => setTimeout(r, 0))", which the chunk at offset 0
\* reaches; "this.isProcessing = true", "this.stopPlayback()"
processAndPlay ==
    /\ ~playback.isProcessing
    /\ PlaybackEvent("process", [stopPlayback(playback) EXCEPT !.isProcessing = TRUE])

\* the rest of processAndPlay(): the buffers are built, then
\* "this.setBufferSelection('processed');
\* this.playBuffer(this.processedBuffer, 'processed', 0)" and, in finally,
\* "this.isProcessing = false"
processAndPlay_finish ==
    /\ playback.isProcessing
    /\ \E linearRefEnabled \in BOOLEAN :
          PlaybackEvent("processed",
             [playBuffer(setBufferSelection(
                  [playback EXCEPT !.processedBuffer = TRUE,
                                   !.linearBuffer = linearRefEnabled],
                  "processed"), "processed")
                EXCEPT !.isProcessing = FALSE])

\* the animation frame of startPlaybackAnimation() finds
\* "elapsed >= effectiveEndTime": "this.stopPlayback(false)"
animate ==
    /\ Playing(playback)
    /\ playback.animationId # 0
    /\ PlaybackEvent("animate", stopPlayback(playback))

\* a source node plays its buffer to the end: its ended event is queued
source_ended(k) ==
    /\ app = "demo"
    /\ playback.sources[k] = "playing"
    /\ playback' = [playback EXCEPT !.sources[k] = "ended",
                                    !.lastEvent = [name |-> "ended", id |-> k]]

\* a callback that treats every source as the current one
Superseded_never(currentSourceId, sourceIdCounter) == FALSE

\* "if (currentSourceId !== this.sourceIdCounter) return"
Superseded(currentSourceId, sourceIdCounter) == currentSourceId # sourceIdCounter

\* this.sourceNode.onended of the source with id currentSourceId
onended(currentSourceId) ==
    /\ app = "demo"
    /\ playback.sources[currentSourceId] = "ended"
    /\ LET p == [playback EXCEPT
                    !.sources[currentSourceId] = "done",
                    !.lastEvent = [name |-> "onended", id |-> currentSourceId]]
       IN  playback' =
             IF Superseded(currentSourceId, playback.sourceIdCounter) THEN p
             ELSE IF Playing(p)
             THEN [p EXCEPT !.isPlaying = FALSE, !.currentBuffer = "null"]
             ELSE p

PlaybackOps ==
    \/ playPauseBtn_click
    \/ stopBtn_click
    \/ \E type \in BufferTypes : bufferBtn_click(type)
    \/ onSeek
    \/ onSelectionChange
    \/ processAndPlay
    \/ processAndPlay_finish
    \/ animate
    \/ \E k \in 1..MaxSources : source_ended(k)
    \/ \E k \in 1..MaxSources : onended(k)

\* the demo page after handleFileSelect has decoded a file
InitPlayback ==
    /\ app = "demo"
    /\ InitStreams
    /\ sw = SwNew
    /\ swPc = "idle"
    /\ outputChunks = <<>>
    /\ submitted = 0
    /\ demo = DemoIdle
    /\ speedy = NoSpeedy
    /\ ringBuffer = AudioRingBuffer(MaxCapacity)
    /\ processor = NoProcessor
    /\ streamingDemo = NoStreamingDemo
    /\ playback = SpeedyDemo(TRUE)

NextPlayback ==
    PlaybackOps /\ UNCHANGED <<bindVars, callVars, swVars, app, demo, speedy,
                               ringBuffer, processor, streamingDemo>>

SpecPlayback == InitPlayback /\ [][NextPlayback]_vars

\* the source nodes that are playing
PlayingSources == {k \in 1..MaxSources : playback.sources[k] = "playing"}

\* C28: at most one AudioBufferSourceNode started by SpeedyDemo is playing at
\* any time, for every sequence of UI events, also when playback is started
\* while processAndPlay is in progress
C28_OneSourcePlaying ==
    app = "demo" => Cardinality(PlayingSources) <= 1

\* C29: the onended callback of a source that a later playBuffer call has
\* superseded changes nothing of the playback state (it neither marks the
\* playback finished nor stops the newer source), and a callback that marks
\* the playback finished belongs to the most recently created source
C29_StaleOnendedIgnored ==
    [][\A k \in 1..MaxSources :
          (app = "demo" /\ playback.sources[k] = "ended"
                        /\ playback'.sources[k] = "done")
             => /\ k # playback.sourceIdCounter
                   => playback' = [playback EXCEPT
                          !.sources[k] = "done",
                          !.lastEvent = [name |-> "onended", id |-> k]]
                /\ (playback.isPlaying /\ ~playback'.isPlaying)
                   => k = playback.sourceIdCounter]_vars

\* the callback of a superseded source has run while the newer source plays
C29_Witness ==
    /\ app = "demo"
    /\ playback.lastEvent.name = "onended"
    /\ playback.lastEvent.id < playback.sourceIdCounter
    /\ playback.sources[playback.lastEvent.id] = "done"
    /\ playback.isPlaying /\ ~playback.isPaused
    /\ playback.sources[playback.sourceIdCounter] = "playing"

============================================================================
